---- MODULE Spec2Model ----
(***************************************************************************)
(* The text-driven ReACT loop of the web server (src/src/server/           *)
(* web-server.ts, src/src/core/react-agent.ts).                            *)
(*                                                                         *)
(* Strings of the program are TLA+ strings; the regular expressions of     *)
(* parseReACTResponse are computed character by character.  The            *)
(* asynchronous functions are cut at their awaits: one action is the code  *)
(* that runs between two suspension points of the single JavaScript        *)
(* thread.                                                                 *)
(***************************************************************************)
EXTENDS Integers, Sequences, FiniteSets, TLC

(***************************************************************************)
(* Bounds of the model.                                                    *)
(***************************************************************************)
MaxSessions == 2
MaxRequests == 2
MaxArrays == 3
MaxFaults == 2
MaxCalls == 3         \* browser tool calls
MaxSearches == 3      \* web_search calls
MaxReflections == 5   \* reflect steps followed in one run of the graph

MaxCheckpoints == 3   \* checkpoints a caller puts

MaxModelCalls == 3    \* tool calls of the request of SpecModels

TickMs == 500         \* the step of time of the browser client, in ms

Sessions == 1..MaxSessions
Requests == 1..MaxRequests
ArrayIds == 1..MaxArrays
Calls == 1..MaxCalls
BrowserIds == 1..MaxCalls
Searches == 1..MaxSearches

(***************************************************************************)
(* Program constants.                                                      *)
(***************************************************************************)
MAX_ITERATIONS == 10
MAX_HISTORY_LENGTH == 50
ChunkWords == 10
ResultLimit == 2000
CACHE_TTL == 300000
MAX_CACHE_SIZE == 100

(***************************************************************************)
(* Characters and string helpers.                                          *)
(***************************************************************************)
SpaceChars == {" ", "\n", "\t", "\r"}

LowerLetters == {"a","b","c","d","e","f","g","h","i","j","k","l","m",
                 "n","o","p","q","r","s","t","u","v","w","x","y","z"}

UpperLetters == {"A","B","C","D","E","F","G","H","I","J","K","L","M",
                 "N","O","P","Q","R","S","T","U","V","W","X","Y","Z"}

Digits == {"0","1","2","3","4","5","6","7","8","9"}

WordChars == LowerLetters \cup UpperLetters \cup Digits \cup {"_"}

LowerChar(c) ==
  CASE c = "A" -> "a" [] c = "B" -> "b" [] c = "C" -> "c" [] c = "D" -> "d"
    [] c = "E" -> "e" [] c = "F" -> "f" [] c = "G" -> "g" [] c = "H" -> "h"
    [] c = "I" -> "i" [] c = "J" -> "j" [] c = "K" -> "k" [] c = "L" -> "l"
    [] c = "M" -> "m" [] c = "N" -> "n" [] c = "O" -> "o" [] c = "P" -> "p"
    [] c = "Q" -> "q" [] c = "R" -> "r" [] c = "S" -> "s" [] c = "T" -> "t"
    [] c = "U" -> "u" [] c = "V" -> "v" [] c = "W" -> "w" [] c = "X" -> "x"
    [] c = "Y" -> "y" [] c = "Z" -> "z" [] OTHER -> c

\* String.prototype.toLowerCase (what the flag i compares)
RECURSIVE LowerFrom(_, _)
LowerFrom(s, p) ==
  IF p > Len(s) THEN "" ELSE LowerChar(SubSeq(s, p, p)) \o LowerFrom(s, p + 1)

ToLower(s) == LowerFrom(s, 1)

CharAt(s, p) == SubSeq(s, p, p)

Min(S) == CHOOSE x \in S : \A y \in S : x <= y

\* The characters of s from position p (1-based) to the end.
From(s, p) == SubSeq(s, p, Len(s))

\* pat occurs in s at position p
MatchAt(s, p, pat) ==
  /\ p >= 1
  /\ p + Len(pat) - 1 <= Len(s)
  /\ SubSeq(s, p, p + Len(pat) - 1) = pat

\* The positions of s where pat occurs.  For a pattern under the flag i
\* the caller passes the lower-cased text and the lower-cased pattern.
Occurrences(s, pat) == {p \in 1..Len(s) : MatchAt(s, p, pat)}

\* First position >= p of s that holds a character outside cs; Len(s)+1 if none.
SkipWhile(s, p, cs) ==
  LET stops == {q \in p..Len(s) : CharAt(s, q) \notin cs}
  IN  IF stops = {} THEN Len(s) + 1 ELSE Min(stops)

\* First position >= p of s that holds a character of cs; Len(s)+1 if none.
SkipUntil(s, p, cs) ==
  LET stops == {q \in p..Len(s) : CharAt(s, q) \in cs}
  IN  IF stops = {} THEN Len(s) + 1 ELSE Min(stops)

\* String.prototype.trim
Trim(s) ==
  LET keep == {q \in 1..Len(s) : CharAt(s, q) \notin SpaceChars}
  IN  IF keep = {} THEN ""
      ELSE SubSeq(s, Min(keep), CHOOSE x \in keep : \A y \in keep : y <= x)

\* String.prototype.indexOf, 1-based; 0 when pat does not occur.
IndexOf(s, pat) ==
  LET ps == Occurrences(s, pat)
  IN  IF ps = {} THEN 0 ELSE Min(ps)

\* String.prototype.split(" ")
RECURSIVE Split(_)
Split(s) ==
  LET p == IndexOf(s, " ")
  IN  IF p = 0 THEN <<s>>
      ELSE <<SubSeq(s, 1, p - 1)>> \o Split(From(s, p + 1))

\* Array.prototype.join(sep)
RECURSIVE Join(_, _)
Join(ws, sep) ==
  IF ws = <<>> THEN ""
  ELSE IF Len(ws) = 1 THEN ws[1]
  ELSE ws[1] \o sep \o Join(Tail(ws), sep)

\* Array.prototype.slice(i, j), 0-based, end exclusive
Slice(ws, i, j) ==
  LET hi == IF j < Len(ws) THEN j ELSE Len(ws)
  IN  SubSeq(ws, i + 1, hi)

\* String.prototype.substring(0, n)
Substring0(s, n) == IF Len(s) <= n THEN s ELSE SubSeq(s, 1, n)

NoMatch == [found |-> FALSE, g1 |-> ""]
Match(g) == [found |-> TRUE, g1 |-> g]

(***************************************************************************)
(* JSON.parse on the text of one flat object: members are string keys with *)
(* string, integer or true/false/null values.  The text handed to it by    *)
(* parseReACTResponse never holds a "}" before its last character.         *)
(* A JSON object is the set of its <<key, value>> members.                 *)
(***************************************************************************)
JStr(v) == [t |-> "string", v |-> v]
JNum(v) == [t |-> "number", v |-> v]
JLit(v) == [t |-> "literal", v |-> v]

JFail == [ok |-> FALSE, obj |-> {}]

\* A JSON string literal starts at position i of j: the position of its
\* closing quote, or 0 when it is not a well-formed literal.
JStringEnd(j, i) ==
  IF i > Len(j) \/ CharAt(j, i) # "\"" THEN 0
  ELSE LET e == SkipUntil(j, i + 1, {"\""})
       IN  IF e > Len(j) THEN 0
           ELSE IF \E q \in (i + 1)..(e - 1) : CharAt(j, q) \in {"\n", "\t", "\r", "\\"}
                THEN 0 ELSE e

\* A JSON integer starts at position i of j: the position of its last
\* digit, or 0.
JNumberEnd(j, i) ==
  LET d == IF i <= Len(j) /\ CharAt(j, i) = "-" THEN i + 1 ELSE i
      e == SkipWhile(j, d, Digits) - 1
  IN  IF e < d THEN 0
      ELSE IF CharAt(j, d) = "0" /\ e > d THEN 0
      ELSE e

\* The value that starts at position i of j: [end, val], end = 0 if none.
JValueAt(j, i) ==
  LET se == JStringEnd(j, i)
      ne == JNumberEnd(j, i)
  IN  IF se # 0 THEN [end |-> se, val |-> JStr(SubSeq(j, i + 1, se - 1))]
      ELSE IF ne # 0 THEN [end |-> ne, val |-> JNum(SubSeq(j, i, ne))]
      ELSE IF MatchAt(j, i, "true") THEN [end |-> i + 3, val |-> JLit("true")]
      ELSE IF MatchAt(j, i, "false") THEN [end |-> i + 4, val |-> JLit("false")]
      ELSE IF MatchAt(j, i, "null") THEN [end |-> i + 3, val |-> JLit("null")]
      ELSE [end |-> 0, val |-> JLit("null")]

\* obj with key k set to v (a later member replaces an earlier one)
JPut(obj, k, v) == {m \in obj : m[1] # k} \cup {<<k, v>>}

\* Members from position i (a key is expected there) to the closing brace.
RECURSIVE JMembers(_, _, _)

\* after a member's value v: n is the position of the next token
JAfterValue(j, obj, key, v, n) ==
  IF n > Len(j) THEN JFail
  ELSE IF CharAt(j, n) = "}" THEN
         (IF n = Len(j) THEN [ok |-> TRUE, obj |-> JPut(obj, key, v.val)]
          ELSE JFail)
  ELSE IF CharAt(j, n) = "," THEN
         JMembers(j, SkipWhile(j, n + 1, SpaceChars), JPut(obj, key, v.val))
  ELSE JFail

\* the member's value v has been read
JMemberValue(j, obj, key, v) ==
  IF v.end = 0 THEN JFail
  ELSE JAfterValue(j, obj, key, v, SkipWhile(j, v.end + 1, SpaceChars))

\* the key ends at ke: c is the position of the next token, a colon
JAfterKey(j, i, obj, ke, c) ==
  IF c > Len(j) \/ CharAt(j, c) # ":" THEN JFail
  ELSE JMemberValue(j, obj, SubSeq(j, i + 1, ke - 1),
                    JValueAt(j, SkipWhile(j, c + 1, SpaceChars)))

\* the key that starts at i ends at ke (0: no key there)
JMemberKey(j, i, obj, ke) ==
  IF ke = 0 THEN JFail
  ELSE JAfterKey(j, i, obj, ke, SkipWhile(j, ke + 1, SpaceChars))

JMembers(j, i, obj) == JMemberKey(j, i, obj, JStringEnd(j, i))

JSONParse(j) ==
  LET b == SkipWhile(j, 1, SpaceChars)
      i == SkipWhile(j, b + 1, SpaceChars)
  IN  IF b > Len(j) \/ CharAt(j, b) # "{" THEN JFail
      ELSE IF i > Len(j) THEN JFail
      ELSE IF CharAt(j, i) = "}" THEN
             (IF SkipWhile(j, i + 1, SpaceChars) > Len(j)
              THEN [ok |-> TRUE, obj |-> {}] ELSE JFail)
      ELSE JMembers(j, i, {})

(***************************************************************************)
(* parseReACTResponse (react-agent.ts).                                    *)
(***************************************************************************)
\* response.match(/Final Answer:\s*(.+)/is)
FinalAnswerMatch(s) ==
  LET ps == {p \in Occurrences(ToLower(s), "final answer:") : p + 13 <= Len(s)}
  IN  IF ps = {} THEN NoMatch
      ELSE LET q == SkipWhile(s, Min(ps) + 13, SpaceChars)
           IN  IF q <= Len(s) THEN Match(From(s, q))
               ELSE Match(CharAt(s, Len(s)))

\* response.match(/Thought:\s*(.+?)(?=\n|$)/is)
ThoughtMatch(s) ==
  LET ps == {p \in Occurrences(ToLower(s), "thought:") : p + 8 <= Len(s)}
  IN  IF ps = {} THEN NoMatch
      ELSE LET q == SkipWhile(s, Min(ps) + 8, SpaceChars)
           IN  IF q <= Len(s)
               THEN Match(SubSeq(s, q, SkipUntil(s, q + 1, {"\n"}) - 1))
               ELSE Match(CharAt(s, Len(s)))

\* response.match(/Action:\s*(\w+)/i)
ActionMatch(s) ==
  LET nameAt(p) == SkipWhile(s, p + 7, SpaceChars)
      ps == {p \in Occurrences(ToLower(s), "action:") :
               /\ nameAt(p) <= Len(s)
               /\ CharAt(s, nameAt(p)) \in WordChars}
  IN  IF ps = {} THEN NoMatch
      ELSE LET q == nameAt(Min(ps))
           IN  Match(SubSeq(s, q, SkipWhile(s, q, WordChars) - 1))

\* response.match(/Action Input:\s*(\{[\s\S]*?\})/i)
ActionInputMatch(s) ==
  LET braceAt(p) == SkipWhile(s, p + 13, SpaceChars)
      ps == {p \in Occurrences(ToLower(s), "action input:") :
               /\ braceAt(p) <= Len(s)
               /\ CharAt(s, braceAt(p)) = "{"
               /\ SkipUntil(s, braceAt(p) + 1, {"}"}) <= Len(s)}
  IN  IF ps = {} THEN NoMatch
      ELSE LET q == braceAt(Min(ps))
           IN  Match(SubSeq(s, q, SkipUntil(s, q + 1, {"}"})))

\* actionInputMatch[1].match(/"query":\s*"([^"]+)"/)
SimpleMatch(g) ==
  LET quoteAt(p) == SkipWhile(g, p + 8, SpaceChars)
      closeAt(p) == SkipUntil(g, quoteAt(p) + 1, {"\""})
      ps == {p \in Occurrences(g, "\"query\":") :
                               /\ quoteAt(p) <= Len(g)
                               /\ CharAt(g, quoteAt(p)) = "\""
                               /\ closeAt(p) <= Len(g)
                               /\ closeAt(p) > quoteAt(p) + 1}
  IN  IF ps = {} THEN NoMatch
      ELSE LET p == Min(ps)
           IN  Match(SubSeq(g, quoteAt(p) + 1, closeAt(p) - 1))

NoAction == [thought |-> "", action |-> "", actionInput |-> {}]

\* lines 118-133: the argument object of the action
ParseActionInput(m) ==
  IF ~m.found THEN {}
  ELSE LET jsonStr   == Trim(m.g1)
           cleanJson == SubSeq(jsonStr, 1, IndexOf(jsonStr, "}"))
           strict    == JSONParse(cleanJson)
           simple    == SimpleMatch(m.g1)
       IN  IF strict.ok THEN strict.obj
           ELSE IF simple.found THEN {<<"query", JStr(simple.g1)>>}
           ELSE {}

\* The ReACTResult; hasFinal / hasAction tell whether the optional field
\* finalAnswer / action is present.
parseReACTResponse(response) ==
  LET finalAnswerMatch == FinalAnswerMatch(response)
      thoughtMatch     == ThoughtMatch(response)
      actionMatch      == ActionMatch(response)
      actionInputMatch == ActionInputMatch(response)
  IN  IF finalAnswerMatch.found
      THEN [isDone |-> TRUE, hasFinal |-> TRUE,
            finalAnswer |-> Trim(finalAnswerMatch.g1),
            hasAction |-> FALSE, action |-> NoAction]
      ELSE IF ~actionMatch.found
      THEN [isDone |-> FALSE, hasFinal |-> FALSE, finalAnswer |-> "",
            hasAction |-> FALSE, action |-> NoAction]
      ELSE [isDone |-> FALSE, hasFinal |-> FALSE, finalAnswer |-> "",
            hasAction |-> TRUE,
            action |-> [thought |-> IF thoughtMatch.found
                                    THEN Trim(thoughtMatch.g1) ELSE "",
                        action |-> Trim(actionMatch.g1),
                        actionInput |-> ParseActionInput(actionInputMatch)]]

(***************************************************************************)
(* The tool registry (tools.ts) and the collaborators' possible answers.   *)
(***************************************************************************)
\* allTools.map((t) => t.name)
allTools == <<"calculator", "web_search", "browser_navigate", "browser_extract",
              "execute_code", "read_file", "write_file", "take_note",
              "get_note", "list_notes", "get_datetime">>

ToolNames == {allTools[k] : k \in 1..Len(allTools)}

\* What tool.invoke can do: resolve with a result or reject with an error.
ToolOutcomes == {[kind |-> "ok", value |-> "The result of 2+2 is 4"],
                 [kind |-> "throw", value |-> "Received tool input did not match expected schema"]}

\* Texts the chat model can answer with.
ModelTexts == {"Thought: done\nFinal Answer: The result is 4.",
               "Thought: test\nAction: calculator\nAction Input: {\"expression\": \"2+2\"}\nPAUSE",
               "Thought: try\nAction: nonexistent_tool\nAction Input: {\"query\": \"weather\"}\nPAUSE",
               "I am sorry but I do not know how to answer this in the required format",
               "Thought: both\nAction: calculator\nAction Input: {}\nFinal Answer: 4",
               "Final Answer: \n"}

\* parseReACTResponse(text), computed once for each text of the chat model
ParsedTexts == [t \in ModelTexts |-> parseReACTResponse(t)]

Parsed(text) ==
  IF text \in ModelTexts THEN ParsedTexts[text] ELSE parseReACTResponse(text)

UserMessages == {"What is 2+2?"}

\* classifyRequest's result type and createPlan's result
ClassificationTypes == {"general", "research"}
Plans == {<<>>, <<"Search", "Answer">>}

\* createReACTPrompt(): the instructions with the tool names
createReACTPrompt ==
  "You are an AI assistant that can use tools: " \o Join(allTools, ", ") \o "\nNow, let's begin!"

HumanMessage(c) == [role |-> "human", content |-> c]
SystemMessage(c) == [role |-> "system", content |-> c]
AIMessage(c) == [role |-> "ai", content |-> c]

(***************************************************************************)
(* State.                                                                  *)
(***************************************************************************)
VARIABLES
  sessions,   \* the sessions map: session id -> array id, 0 when no entry
  arrays,     \* the message arrays (BaseMessage[]) by array id
  nextArr,    \* the next array id to allocate
  open,       \* the WebSocket connections that are open
  sent,       \* per connection, the events passed to ws.send, in order
  req,        \* per chat message, the locals of its handler and executeResponse
  faults,     \* number of failing tool calls so far (bounded by MaxFaults)
  rawResponse, \* the model text whose parse is studied, "" when none is
  graph,      \* advanced agent: the AgentState of the run and the node to run
  browserInstance, \* tools.ts: the browser id, 0 for null
  browsers,   \* per browser id: none (not launched), open, closing, closed
  browserCalls, \* per browser tool call, where it is and the browser it got
  searchCache,\* tools.ts: the Map entries in insertion order; the field
              \* used only records when the entry was last stored or hit
  now,        \* Date.now()
  searches,   \* per web_search call, where it is and its query
  model,      \* web-server.ts: the chat model in use (config.models.agent)
  checkpoints,\* MemoryCheckpointSaver: the Map entries, thread id -> checkpoint
  socket,     \* browser client: the WebSocket ws is none, connecting, open, closed
  isConnected,\* browser client
  reconnectAttempts, \* browser client
  reconnectTimer,    \* browser client: ms left of the pending setTimeout, 0 when none
  connectionStatus,  \* browser client: what updateConnectionStatus showed last
  reconnects, \* browser client: the reconnections made and failed since the
              \* last open and the delay scheduled last; only records
  notes,      \* tools.ts: the notes Map entries in insertion order
  taken,      \* per session, the Map its own take_note calls build; only records
  noteCall,   \* the latest note tool call: session, tool, key and result
  files,      \* the filesystem: what is at each path
  lastPut,    \* per thread id, the checkpoint put last, 0 after a clear; only records
  fileCall    \* the latest file tool call: tool, path, result, filesystem use

serverVars == <<sessions, arrays, nextArr, open, sent, req, faults>>

browserVars == <<browserInstance, browsers, browserCalls>>

cacheVars == <<searchCache, now, searches>>

clientVars == <<socket, isConnected, reconnectAttempts, reconnectTimer,
                connectionStatus, reconnects>>

notesVars == <<notes, taken, noteCall>>

saverVars == <<checkpoints, lastPut>>

fileVars == <<files, fileCall>>

restVars == <<model, saverVars, clientVars, notesVars, fileVars>>

vars == <<sessions, arrays, nextArr, open, sent, req, faults, rawResponse, graph,
          browserInstance, browsers, browserCalls, searchCache, now, searches,
          model, checkpoints, socket, isConnected, reconnectAttempts,
          reconnectTimer, connectionStatus, reconnects, notes, taken, noteCall,
          files, lastPut, fileCall>>

NoParse == [isDone |-> FALSE, hasFinal |-> FALSE, finalAnswer |-> "",
            hasAction |-> FALSE, action |-> NoAction]

\* pc: idle (message not received), classify, plan, invoke, race, chunk:
\* the await the handler is suspended at; done: the handler returned.
\* tools, timers: the iterations whose tool promise is pending and whose
\* 30-second timer is armed.  modelCalls, toolExecs, modelFailed and outcome
\* (what the latest tool call did: ok, throw, unknown, timeout) only record
\* what happened, and models the chat model each model.invoke went to.
NoOutcome == [kind |-> "none", value |-> ""]

IdleRequest ==
  [pc |-> "idle", sessionId |-> 0, history |-> 0, content |-> "",
   classification |-> "", iteration |-> 0, responseText |-> "",
   parsed |-> NoParse, words |-> <<>>, i |-> 0,
   tools |-> {}, timers |-> {},
   modelCalls |-> 0, toolExecs |-> 0, modelFailed |-> FALSE,
   outcome |-> NoOutcome, models |-> <<>>]

Event ==
  [type |-> "", req |-> 0, step |-> "", content |-> "", classification |-> "",
   plan |-> <<>>, toolName |-> "", toolArgs |-> {}, toolId |-> "",
   result |-> "", error |-> ""]

AgentStep(r, step, content) ==
  [Event EXCEPT !.type = "agent-step", !.req = r, !.step = step, !.content = content]

\* the AgentState defaults; node is the node about to run, toolCalls tells
\* whether the last message asks for tools; messages and scratchpad hold
\* the lengths of the two lists; reflections only counts the reflect steps
DefaultMaxIterations == 3

NoRun ==
  [node |-> "START", input |-> "", messages |-> 0, currentStep |-> "start",
   scratchpad |-> 0, iteration |-> 0, maxIterations |-> DefaultMaxIterations,
   qualityScore |-> 0, toolCalls |-> FALSE, reflections |-> 0]

\* pc: idle (not called), launch, page: the await the tool is suspended at;
\* done: the tool returned
IdleCall == [pc |-> "idle", browser |-> 0]

\* pc: idle, tavily (suspended at tavilyClient.search), done; hit tells
\* whether the result came from the cache
IdleSearch == [pc |-> "idle", query |-> "", result |-> "", hit |-> FALSE]

\* web-server.ts after the module is loaded
InitServer ==
  /\ sessions = [s \in Sessions |-> 0]
  /\ arrays = [a \in ArrayIds |-> <<>>]
  /\ nextArr = 1
  /\ open = [s \in Sessions |-> FALSE]
  /\ sent = [s \in Sessions |-> <<>>]
  /\ req = [r \in Requests |-> IdleRequest]
  /\ faults = 0

\* let browserInstance: Browser | null = null
InitBrowser ==
  /\ browserInstance = 0
  /\ browsers = [b \in BrowserIds |-> "none"]
  /\ browserCalls = [c \in Calls |-> IdleCall]

\* const searchCache = new Map()
InitCache ==
  /\ searchCache = <<>>
  /\ now = 0
  /\ searches = [k \in Searches |-> IdleSearch]

\* config.ts line 16, and the ids a client posts to /api/models
DefaultModel == "tngtech/deepseek-r1t2-chimera:free"

ModelIds == {DefaultModel, "openai/gpt-4o-mini"}

\* let model = createChatModel(config.models.agent)
InitModel == model = DefaultModel

\* the thread ids of a config: no thread_id at all, the empty one, named ones
NoThread == [has |-> FALSE, thread_id |-> ""]

Thread(t) == [has |-> TRUE, thread_id |-> t]

ThreadIds == {"", "default", "thread-1", "thread-2"}

Configs == {NoThread} \cup {Thread(t) : t \in ThreadIds}

CheckpointIds == 1..MaxCheckpoints

\* undefined, what Map.get returns for a missing key
NoTuple == [thread_id |-> "", checkpoint |-> 0, parentConfig |-> NoThread]

\* private checkpoints = new Map()
InitSaver ==
  /\ checkpoints = [t \in ThreadIds |-> NoTuple]
  /\ lastPut = [t \in ThreadIds |-> 0]

NoSocket == [state |-> "none", reconnect |-> FALSE]

NoReconnects == [made |-> 0, failed |-> 0, delay |-> 0]

\* the script's globals before connectWebSocket is called at page load
InitClient ==
  /\ socket = NoSocket
  /\ isConnected = FALSE
  /\ reconnectAttempts = 0
  /\ reconnectTimer = 0
  /\ connectionStatus = "connecting"
  /\ reconnects = NoReconnects

NoNoteCall == [session |-> 0, tool |-> "", key |-> "", result |-> ""]

\* const notes = new Map()
InitNotes ==
  /\ notes = <<>>
  /\ taken = [s \in Sessions |-> <<>>]
  /\ noteCall = NoNoteCall

\* process.cwd(), and what the disk holds when the server starts
Cwd == "/app"

NoFile == [kind |-> "none", content |-> ""]

Dir == [kind |-> "dir", content |-> ""]

File(content) == [kind |-> "file", content |-> content]

DiskPaths ==
  {"/", "/app", "/app/data.txt", "/app/out", "/app/out/new.txt", "/app/.env",
   "/app-backup", "/app-backup/secret.txt", "/app-backup/new.txt",
   "/etc", "/etc/passwd"}

DiskAtStart ==
  [p \in DiskPaths |->
     CASE p \in {"/", "/app", "/app-backup", "/etc"} -> Dir
       [] p = "/app/data.txt" -> File("data")
       [] p = "/app/.env" -> File("KEY=1")
       [] p = "/app-backup/secret.txt" -> File("secret")
       [] p = "/etc/passwd" -> File("root")
       [] OTHER -> NoFile]

NoFileCall == [tool |-> "", filePath |-> "", result |-> "", fs |-> <<>>]

InitFiles ==
  /\ files = DiskAtStart
  /\ fileCall = NoFileCall

InitRest ==
  /\ InitModel
  /\ InitSaver
  /\ InitClient
  /\ InitNotes
  /\ InitFiles

Init ==
  /\ InitServer
  /\ rawResponse = ""
  /\ InitRest
  /\ graph = NoRun
  /\ InitBrowser
  /\ InitCache

(***************************************************************************)
(* The code between two awaits works on the locals of one request, its     *)
(* history array, its connection's output and the sessions map: a frame.   *)
(***************************************************************************)
Frame(r) ==
  [r |-> r, rq |-> req[r], h |-> arrays[req[r].history],
   out |-> sent[req[r].sessionId], sessions |-> sessions, model |-> model]

Send(f, ev) == [f EXCEPT !.out = Append(@, ev)]

Commit(f) ==
  /\ req' = [req EXCEPT ![f.r] = f.rq]
  /\ arrays' = [arrays EXCEPT ![f.rq.history] = f.h]
  /\ sent' = [sent EXCEPT ![f.rq.sessionId] = f.out]
  /\ sessions' = f.sessions
  /\ UNCHANGED <<rawResponse, restVars, graph, browserVars, cacheVars>>

(***************************************************************************)
(* executeReACTAction (react-agent.ts): the observation the tool promise   *)
(* resolves with, given what tool.invoke does.  It never rejects.          *)
(***************************************************************************)
\* variant: the unknown-tool message without the list of registered tools
executeReACTAction_NoNames(action, outcome) ==
  IF action.action \notin ToolNames
  THEN "Error: Unknown tool \"" \o action.action \o "\"."
  ELSE IF outcome.kind = "ok" THEN outcome.value
  ELSE "Error executing " \o action.action \o ": " \o outcome.value

\* variant: a tool exception rendered without the tool name
executeReACTAction_MessageOnly(action, outcome) ==
  IF action.action \notin ToolNames
  THEN "Error: Unknown tool \"" \o action.action \o "\". Available tools: "
         \o Join(allTools, ", ")
  ELSE IF outcome.kind = "ok" THEN outcome.value
  ELSE "Error: " \o outcome.value

executeReACTAction(action, outcome) ==
  IF action.action \notin ToolNames
  THEN "Error: Unknown tool \"" \o action.action \o "\". Available tools: "
         \o Join(allTools, ", ")
  ELSE IF outcome.kind = "ok" THEN outcome.value
  ELSE "Error executing " \o action.action \o ": " \o outcome.value

\* `react-${iteration}`
ToolId(iteration) == "react-" \o ToString(iteration)

\* variant: the timeout message without the tool name
TimeoutMessage_NoName(action) == "Tool timed out after 30 seconds"

\* new Error(`Tool ${action} timed out after 30 seconds`).message
TimeoutMessage(action) == "Tool " \o action \o " timed out after 30 seconds"

\* `${responseText}\n\nObservation: ${observation}\n\n`
InteractionText(responseText, observation) ==
  responseText \o "\n\nObservation: " \o observation \o "\n\n"

\* variant: the result cut without the marker
ResultField_NoMarker(observation) == Substring0(observation, ResultLimit)

\* observation.substring(0, 2000) + (observation.length > 2000 ? "..." : "")
ResultField(observation) ==
  Substring0(observation, ResultLimit)
    \o (IF Len(observation) > ResultLimit THEN "..." ELSE "")

(***************************************************************************)
(* executeResponse (web-server.ts), cut at its awaits.                     *)
(***************************************************************************)
\* variant: reaching the iteration limit removes the session
AfterLoop_DropSession(f) ==
  LET g == IF f.rq.iteration >= MAX_ITERATIONS
           THEN [Send(f, [Event EXCEPT !.type = "error", !.req = f.r,
                           !.content = "Maximum iteration limit reached. Please try rephrasing your question."])
                   EXCEPT !.sessions[f.rq.sessionId] = 0]
           ELSE f
  IN  [g EXCEPT !.rq.pc = "done"]

\* lines 645-650 and the return to the message handler
AfterLoop(f) ==
  LET g == IF f.rq.iteration >= MAX_ITERATIONS
           THEN Send(f, [Event EXCEPT !.type = "error", !.req = f.r,
                          !.content = "Maximum iteration limit reached. Please try rephrasing your question."])
           ELSE f
  IN  [g EXCEPT !.rq.pc = "done"]

\* variant: the loop test off by one (iteration <= MAX_ITERATIONS)
WhileLoop_OffByOne(f) ==
  IF f.rq.iteration <= MAX_ITERATIONS
  THEN [f EXCEPT !.rq.iteration = @ + 1, !.rq.modelCalls = @ + 1,
                 !.rq.models = Append(@, f.model), !.rq.pc = "invoke"]
  ELSE AfterLoop(f)

\* lines 512-517: the loop test, iteration++ and the call of model.invoke
WhileLoop(f) ==
  IF f.rq.iteration < MAX_ITERATIONS
  THEN [f EXCEPT !.rq.iteration = @ + 1, !.rq.modelCalls = @ + 1,
                 !.rq.models = Append(@, f.model), !.rq.pc = "invoke"]
  ELSE AfterLoop(f)

\* variant: the system prompt is put in front at every chat message
ExecuteResponseStart_Always(f) ==
  LET g == [f EXCEPT !.h = <<SystemMessage(createReACTPrompt)>> \o @]
  IN  WhileLoop([Send(g, AgentStep(f.r, "thinking", "Analyzing request..."))
                   EXCEPT !.rq.iteration = 0])

\* lines 495-510: the system prompt of a new conversation, the first event
ExecuteResponseStart(f) ==
  LET g == IF Len(f.h) = 1
           THEN [f EXCEPT !.h = <<SystemMessage(createReACTPrompt)>> \o @]
           ELSE f
  IN  WhileLoop([Send(g, AgentStep(f.r, "thinking", "Analyzing request..."))
                   EXCEPT !.rq.iteration = 0])

\* variant: the break after the streamed answer is missing
StreamEnd_NoBreak(f) ==
  LET g == Send(f, [Event EXCEPT !.type = "stream-end", !.req = f.r])
  IN  WhileLoop([g EXCEPT !.h = Append(@, AIMessage(f.rq.responseText)),
                          !.sessions[f.rq.sessionId] = f.rq.history])

\* lines 542-547 / 637-641: stream-end, the AI turn, sessions.set, break
StreamEnd(f) ==
  LET g == Send(f, [Event EXCEPT !.type = "stream-end", !.req = f.r])
  IN  AfterLoop([g EXCEPT !.h = Append(@, AIMessage(f.rq.responseText)),
                          !.sessions[f.rq.sessionId] = f.rq.history])

\* variant: the chunks are sent without the space that ends them
StreamLoop_NoSpace(f) ==
  IF f.rq.i < Len(f.rq.words)
  THEN [Send(f, [Event EXCEPT !.type = "stream-chunk", !.req = f.r,
                   !.content = Join(Slice(f.rq.words, f.rq.i, f.rq.i + ChunkWords), " ")])
          EXCEPT !.rq.pc = "chunk"]
  ELSE StreamEnd(f)

\* lines 533-540 / 628-635: one turn of the chunk loop, up to its await
StreamLoop(f) ==
  IF f.rq.i < Len(f.rq.words)
  THEN [Send(f, [Event EXCEPT !.type = "stream-chunk", !.req = f.r,
                   !.content = Join(Slice(f.rq.words, f.rq.i, f.rq.i + ChunkWords), " ") \o " "])
          EXCEPT !.rq.pc = "chunk"]
  ELSE StreamEnd(f)

\* lines 529-533 / 625-628: stream-start and the split of the text
StreamStart(f, text) ==
  StreamLoop([Send(f, [Event EXCEPT !.type = "stream-start", !.req = f.r])
                EXCEPT !.rq.words = Split(text), !.rq.i = 0])

\* lines 550-581: the tool-call event, the progress event, the start of the
\* tool and of the timer
StartTool(f) ==
  LET a == f.rq.parsed.action
      g == Send(f, [Event EXCEPT !.type = "tool-call", !.req = f.r,
                      !.toolName = a.action, !.toolArgs = a.actionInput,
                      !.toolId = ToolId(f.rq.iteration)])
      h == Send(g, AgentStep(f.r, "executing", "Executing " \o a.action \o "..."))
  IN  [h EXCEPT !.rq.pc = "race",
                !.rq.tools = @ \cup {f.rq.iteration},
                !.rq.timers = @ \cup {f.rq.iteration},
                !.rq.toolExecs = IF a.action \in ToolNames THEN @ + 1 ELSE @]

\* lines 518-642: the branch taken on the parsed reply
OnResponse(f, text) ==
  LET parsed == Parsed(text)
      g == [f EXCEPT !.rq.responseText = text, !.rq.parsed = parsed]
  IN  IF parsed.isDone /\ parsed.finalAnswer # ""
      THEN StreamStart(g, parsed.finalAnswer)
      ELSE IF parsed.hasAction THEN StartTool(g)
      ELSE StreamStart(g, text)

\* variant: the turn is put in front of the history (unshift for push)
OnObservation_Unshift(f, observation) ==
  LET a == f.rq.parsed.action
      g == Send(f, [Event EXCEPT !.type = "tool-result", !.req = f.r,
                      !.toolName = a.action, !.result = ResultField(observation),
                      !.toolId = ToolId(f.rq.iteration)])
      h == [g EXCEPT !.h = <<AIMessage(InteractionText(f.rq.responseText, observation))>> \o @]
  IN  WhileLoop(Send(h, AgentStep(f.r, "thinking", "Processing results...")))

\* lines 583-602: the race was won by the tool promise
OnObservation(f, observation) ==
  LET a == f.rq.parsed.action
      g == Send(f, [Event EXCEPT !.type = "tool-result", !.req = f.r,
                      !.toolName = a.action, !.result = ResultField(observation),
                      !.toolId = ToolId(f.rq.iteration)])
      h == [g EXCEPT !.h = Append(@, AIMessage(InteractionText(f.rq.responseText, observation)))]
  IN  WhileLoop(Send(h, AgentStep(f.r, "thinking", "Processing results...")))

\* variant: the error observation is not added to the history
OnToolError_NoTurn(f, message) ==
  LET a == f.rq.parsed.action
      errorObs == "Error: " \o message
      g == Send(f, [Event EXCEPT !.type = "tool-error", !.req = f.r,
                      !.toolName = a.action, !.error = errorObs,
                      !.toolId = ToolId(f.rq.iteration)])
  IN  WhileLoop(g)

\* variant: the tool-error event carries the id of the next iteration
OnToolError_NextId(f, message) ==
  LET a == f.rq.parsed.action
      errorObs == "Error: " \o message
      g == Send(f, [Event EXCEPT !.type = "tool-error", !.req = f.r,
                      !.toolName = a.action, !.error = errorObs,
                      !.toolId = ToolId(f.rq.iteration + 1)])
  IN  WhileLoop([g EXCEPT !.h = Append(@, AIMessage(InteractionText(f.rq.responseText, errorObs)))])

\* lines 604-619: the race was lost, toolError is what the timer rejected with
OnToolError(f, message) ==
  LET a == f.rq.parsed.action
      errorObs == "Error: " \o message
      g == Send(f, [Event EXCEPT !.type = "tool-error", !.req = f.r,
                      !.toolName = a.action, !.error = errorObs,
                      !.toolId = ToolId(f.rq.iteration)])
  IN  WhileLoop([g EXCEPT !.h = Append(@, AIMessage(InteractionText(f.rq.responseText, errorObs)))])

\* variant: the catch is inside the loop, which goes on after the error
OnError_InLoop(f, message) ==
  WhileLoop([Send(f, [Event EXCEPT !.type = "error", !.req = f.r,
                        !.content = "Error: " \o message])
               EXCEPT !.rq.modelFailed = TRUE])

\* lines 652-658: the catch of executeResponse
OnError(f, message) ==
  [Send(f, [Event EXCEPT !.type = "error", !.req = f.r,
              !.content = "Error: " \o message])
     EXCEPT !.rq.pc = "done", !.rq.modelFailed = TRUE]

(***************************************************************************)
(* Actions.                                                                *)
(***************************************************************************)
\* wss.on("connection"): a new session with an empty history
Connect(s) ==
  /\ ~open[s]
  /\ sessions[s] = 0
  /\ sent[s] = <<>>
  /\ nextArr <= MaxArrays
  /\ open' = [open EXCEPT ![s] = TRUE]
  /\ sessions' = [sessions EXCEPT ![s] = nextArr]
  /\ arrays' = [arrays EXCEPT ![nextArr] = <<>>]
  /\ nextArr' = nextArr + 1
  /\ UNCHANGED <<sent, req, faults, rawResponse, restVars, graph,
                 browserVars, cacheVars>>

\* history.splice(0, history.length - MAX_HISTORY_LENGTH) when too long
CapHistory(h) ==
  IF Len(h) > MAX_HISTORY_LENGTH
  THEN SubSeq(h, Len(h) - MAX_HISTORY_LENGTH + 1, Len(h))
  ELSE h

\* ws.on("message") for a chat message, up to the await of classifyRequest
Chat(r, s, content) ==
  /\ req[r].pc = "idle"
  /\ open[s]
  /\ sessions[s] # 0
  /\ LET a == sessions[s]
         f == [r |-> r,
               rq |-> [req[r] EXCEPT !.sessionId = s, !.history = a,
                                     !.content = content, !.pc = "classify"],
               h |-> CapHistory(Append(arrays[a], HumanMessage(content))),
               out |-> sent[s], sessions |-> sessions]
     IN  Commit(Send(f, AgentStep(r, "classification", "Analyzing request type...")))
  /\ UNCHANGED <<nextArr, open, faults>>

NeedsPlan(type) == type \in {"code", "research", "creative"}

\* lines 387-405 (and 424 when no plan is needed): classifyRequest returned
Classified(r, type) ==
  /\ req[r].pc = "classify"
  /\ LET f == Send([Frame(r) EXCEPT !.rq.classification = type],
                   [Event EXCEPT !.type = "classification", !.req = r,
                                 !.classification = type])
     IN  IF NeedsPlan(type)
         THEN Commit([Send(f, AgentStep(r, "planning", "Creating execution plan..."))
                        EXCEPT !.rq.pc = "plan"])
         ELSE Commit(ExecuteResponseStart(f))
  /\ UNCHANGED <<nextArr, open, faults>>

\* lines 405-424: createPlan returned
Planned(r, plan) ==
  /\ req[r].pc = "plan"
  /\ LET f == Frame(r)
         g == IF Len(plan) > 0
              THEN Send(Send(f, [Event EXCEPT !.type = "plan", !.req = r, !.plan = plan]),
                        AgentStep(r, "execution", "Executing plan..."))
              ELSE f
     IN  Commit(ExecuteResponseStart(g))
  /\ UNCHANGED <<nextArr, open, faults>>

\* model.invoke(history) resolved with text
ModelReplies(r, text) ==
  /\ req[r].pc = "invoke"
  /\ LET unknown == LET p == Parsed(text)
                    IN  ~p.isDone /\ p.hasAction /\ p.action.action \notin ToolNames
     IN  /\ unknown => faults < MaxFaults
         /\ faults' = IF unknown THEN faults + 1 ELSE faults
  /\ Commit(OnResponse(Frame(r), text))
  /\ UNCHANGED <<nextArr, open>>

\* model.invoke(history) rejected
ModelFails(r) ==
  /\ req[r].pc = "invoke"
  /\ Commit(OnError(Frame(r), "Connection error."))
  /\ UNCHANGED <<nextArr, open, faults>>

\* setTimeout(resolve, 20) of the chunk loop fired
ChunkDelay(r) ==
  /\ req[r].pc = "chunk"
  /\ Commit(StreamLoop([Frame(r) EXCEPT !.rq.i = @ + ChunkWords]))
  /\ UNCHANGED <<nextArr, open, faults>>

\* variant: a clear message empties the history of every session
Clear_All(s) ==
  /\ open[s]
  /\ nextArr <= MaxArrays
  /\ sessions' = [t \in Sessions |-> IF sessions[t] # 0 THEN nextArr ELSE 0]
  /\ arrays' = [arrays EXCEPT ![nextArr] = <<>>]
  /\ nextArr' = nextArr + 1
  /\ sent' = [sent EXCEPT ![s] = Append(@, [Event EXCEPT !.type = "cleared"])]
  /\ UNCHANGED <<open, req, faults, rawResponse, restVars, graph,
                 browserVars, cacheVars>>

\* ws.on("message") for a clear message: a new, empty array for the session
Clear(s) ==
  /\ open[s]
  /\ nextArr <= MaxArrays
  /\ sessions' = [sessions EXCEPT ![s] = nextArr]
  /\ arrays' = [arrays EXCEPT ![nextArr] = <<>>]
  /\ nextArr' = nextArr + 1
  /\ sent' = [sent EXCEPT ![s] = Append(@, [Event EXCEPT !.type = "cleared"])]
  /\ UNCHANGED <<open, req, faults, rawResponse, restVars, graph,
                 browserVars, cacheVars>>

\* ws.on("close"): sessions.delete(sessionId)
Close(s) ==
  /\ open[s]
  /\ open' = [open EXCEPT ![s] = FALSE]
  /\ sessions' = [sessions EXCEPT ![s] = 0]
  /\ UNCHANGED <<arrays, nextArr, sent, req, faults, rawResponse, restVars,
                 graph, browserVars, cacheVars>>

\* Promise.race([toolPromise, timeoutPromise]) of iteration id is undecided:
\* executeResponse is suspended at its await
Racing(rq, id) == rq.pc = "race" /\ rq.iteration = id

\* variant: a race that every settling promise decides again
RaceSettled_Always(f, id, won) == won

\* Promise.race: the promise that settles first decides and resumes
\* executeResponse with frame won; the promise that settles second finds the
\* race decided and changes nothing
RaceSettled(f, id, won) == IF Racing(f.rq, id) THEN won ELSE f

\* toolPromise of iteration id settled: the tool resolved or threw, or the
\* tool name was unknown
ToolSettles(r, id, outcome) ==
  /\ id \in req[r].tools
  /\ LET known == req[r].parsed.action.action \in ToolNames
         fails == Racing(req[r], id) /\ known /\ outcome.kind = "throw"
     IN  /\ fails => faults < MaxFaults
         /\ faults' = IF fails THEN faults + 1 ELSE faults
  /\ LET known == req[r].parsed.action.action \in ToolNames
         f == [Frame(r) EXCEPT !.rq.tools = @ \ {id}]
         g == [f EXCEPT !.rq.outcome =
                 IF known THEN outcome ELSE [kind |-> "unknown", value |-> ""]]
     IN  Commit(RaceSettled(f, id,
                  OnObservation(g, executeReACTAction(req[r].parsed.action, outcome))))
  /\ UNCHANGED <<nextArr, open>>

\* timeoutPromise of iteration id rejected: 30 seconds have passed since the
\* tool call started (before that an unknown tool has resolved toolPromise)
TimeoutFires(r, id) ==
  /\ id \in req[r].timers
  /\ Racing(req[r], id) => /\ req[r].parsed.action.action \in ToolNames
                           /\ faults < MaxFaults
  /\ faults' = IF Racing(req[r], id) THEN faults + 1 ELSE faults
  /\ LET f == [Frame(r) EXCEPT !.rq.timers = @ \ {id}]
         g == [f EXCEPT !.rq.outcome = [kind |-> "timeout", value |-> ""]]
     IN  Commit(RaceSettled(f, id,
                  OnToolError(g, TimeoutMessage(req[r].parsed.action.action))))
  /\ UNCHANGED <<nextArr, open>>

(***************************************************************************)
(* Spec: one connection, on which the client sends one chat message.       *)
(***************************************************************************)
Next ==
  \/ Connect(1)
  \/ \E c \in UserMessages : Chat(1, 1, c)
  \/ \E t \in ClassificationTypes : Classified(1, t)
  \/ \E p \in Plans : Planned(1, p)
  \/ \E t \in ModelTexts : ModelReplies(1, t)
  \/ ModelFails(1)
  \/ ChunkDelay(1)
  \/ \E o \in ToolOutcomes : ToolSettles(1, req[1].iteration, o)
  \/ TimeoutFires(1, req[1].iteration)

Spec == Init /\ [][Next]_vars

(***************************************************************************)
(* SpecServer: two connections, made before the first chat message, and   *)
(* two chat messages, numbered in the order of their arrival, the second   *)
(* on either connection; at any time a close, or the one clear message of  *)
(* a connection; tool promises and timers that settle after their race     *)
(* was decided.  The chat model answers with a final answer or with a      *)
(* calculator action, the latter at most MaxToolCalls times.               *)
(***************************************************************************)
\* how many of the events es have one of the types
CountTypes(es, types) == Cardinality({k \in DOMAIN es : es[k].type \in types})

MaxToolCalls == 1

AnswerText == "Thought: done\nFinal Answer: The result is 4."
CallText == "Thought: test\nAction: calculator\nAction Input: {\"expression\": \"2+2\"}\nPAUSE"

OkOutcome == [kind |-> "ok", value |-> "The result of 2+2 is 4"]

ToolCalls == req[1].toolExecs + req[2].toolExecs

NextServer ==
  \/ Connect(1)
  \/ open[1] /\ req[1].pc = "idle" /\ Connect(2)
  \/ \E c \in UserMessages : Chat(1, 1, c)
  \/ \E s \in {1, 2}, c \in UserMessages : req[1].pc # "idle" /\ Chat(2, s, c)
  \/ \E r \in {1, 2} : Classified(r, "general")
  \/ \E r \in {1, 2} : ModelReplies(r, AnswerText)
  \/ \E r \in {1, 2} : ToolCalls < MaxToolCalls /\ ModelReplies(r, CallText)
  \/ \E r \in {1, 2} : ChunkDelay(r)
  \/ \E r \in {1, 2}, id \in 1..MAX_ITERATIONS : ToolSettles(r, id, OkOutcome)
  \/ \E r \in {1, 2}, id \in 1..MAX_ITERATIONS : TimeoutFires(r, id)
  \/ \E s \in {1, 2} : CountTypes(sent[s], {"cleared"}) = 0 /\ Clear(s)
  \/ \E s \in {1, 2} : Close(s)

SpecServer == Init /\ [][NextServer]_vars

(***************************************************************************)
(* SpecSeq: one connection on which two chat messages arrive one after the *)
(* other, the second when the first has been answered.  The connection is  *)
(* new, or has had PriorExchanges chat messages before, each answered at   *)
(* the first model invocation.  The chat model answers with a final answer *)
(* or with a calculator action; the tool resolves, the first time with a   *)
(* result of any length around ResultLimit.                                *)
(***************************************************************************)
PriorExchanges == 24

\* the events of a chat message answered with AnswerText at once
ExchangeEvents ==
  <<AgentStep(0, "classification", "Analyzing request type..."),
    [Event EXCEPT !.type = "classification", !.classification = "general"],
    AgentStep(0, "thinking", "Analyzing request..."),
    [Event EXCEPT !.type = "stream-start"],
    [Event EXCEPT !.type = "stream-chunk", !.content = Parsed(AnswerText).finalAnswer \o " "],
    [Event EXCEPT !.type = "stream-end"]>>

\* the chat handler and executeResponse for one such chat message, on the
\* history array h
Exchange(h) ==
  LET pushed == CapHistory(Append(h, HumanMessage("What is 2+2?")))
  IN  Append(IF Len(pushed) = 1
             THEN <<SystemMessage(createReACTPrompt)>> \o pushed
             ELSE pushed,
             AIMessage(AnswerText))

\* the history array and the event log after n more such chat messages
RECURSIVE Exchanges(_, _, _)
Exchanges(h, out, n) ==
  IF n = 0 THEN [h |-> h, out |-> out]
  ELSE CHOOSE after \in {Exchanges(g, o, n - 1) :
                            g \in {Exchange(h)}, o \in {out \o ExchangeEvents}} : TRUE

RECURSIVE Repeat(_, _)
Repeat(s, n) == IF n = 0 THEN "" ELSE s \o Repeat(s, n - 1)

\* a text of n characters
TextOfLength(n) ==
  LET ten == "0123456789"
      hundred == Repeat(ten, Len(ten))
  IN  Repeat(hundred, n \div Len(hundred)) \o SubSeq(hundred, 1, n % Len(hundred))

\* tool results one character shorter than, as long as, and one character
\* longer than ResultLimit
LongOutcomes ==
  {[kind |-> "ok", value |-> TextOfLength(n)] :
     n \in {ResultLimit - 1, ResultLimit, ResultLimit + 1}}

InitSeq ==
  /\ \E n \in {0, PriorExchanges} :
       \E before \in {Exchanges(<<>>, <<>>, n)} :
         /\ arrays = [a \in ArrayIds |-> IF a = 1 THEN before.h ELSE <<>>]
         /\ sent = [s \in Sessions |-> IF s = 1 THEN before.out ELSE <<>>]
  /\ sessions = [s \in Sessions |-> IF s = 1 THEN 1 ELSE 0]
  /\ nextArr = 2
  /\ open = [s \in Sessions |-> s = 1]
  /\ req = [r \in Requests |-> IdleRequest]
  /\ faults = 0
  /\ rawResponse = ""
  /\ InitRest
  /\ graph = NoRun
  /\ InitBrowser
  /\ InitCache

NextSeq ==
  \/ \E c \in UserMessages : Chat(1, 1, c)
  \/ \E c \in UserMessages : req[1].pc = "done" /\ Chat(2, 1, c)
  \/ \E r \in {1, 2} : Classified(r, "general")
  \/ \E r \in {1, 2} : ModelReplies(r, AnswerText)
  \/ \E r \in {1, 2} : ModelReplies(r, CallText)
  \/ \E r \in {1, 2} : ChunkDelay(r)
  \/ \E r \in {1, 2} : ToolSettles(r, req[r].iteration, OkOutcome)
  \/ \E o \in LongOutcomes : req[1].iteration = 1 /\ ToolSettles(1, 1, o)

SpecSeq == InitSeq /\ [][NextSeq]_vars

(***************************************************************************)
(* SpecParse: one connection and one chat message whose first model reply  *)
(* is rawResponse, a text put together from a thought line, an action      *)
(* line, an action input line and a final answer in the forms a model may  *)
(* write them.                                                             *)
(***************************************************************************)
ActionLines ==
  {"", "Action: calculator\n", "action:web_search\n", "Action: ?\n"}

ActionInputLines ==
  {"",
   "Action Input: {\"expression\": \"2+2\"}\n",
   "Action Input: {\"query\": \"cats\", }\n",
   "Action Input: {\"a\": {\"query\": \"cats\"}}\n",
   "Action Input: json {\"query\": \"cats\"}\n",
   "Action Input: {\"query\": \"cats}\n"}

FinalAnswers ==
  {"", "Final Answer: 4", "FINAL ANSWER:  The result is 4. \n",
   "Final Answer: \n", "final answer:"}

\* the final answer written after the action, or before it
ParseTexts ==
  {"Thought: t\n" \o a \o i \o f :
     a \in ActionLines, i \in ActionInputLines, f \in FinalAnswers}
  \cup
  {"Thought: t\n" \o f \o "\n" \o a \o i :
     a \in ActionLines, i \in ActionInputLines, f \in FinalAnswers \ {""}}

InitParse ==
  /\ InitServer
  /\ rawResponse \in ParseTexts
  /\ InitRest
  /\ graph = NoRun
  /\ InitBrowser
  /\ InitCache

NextParse ==
  \/ Connect(1)
  \/ \E c \in UserMessages : Chat(1, 1, c)
  \/ Classified(1, "general")
  \/ req[1].iteration = 1 /\ ModelReplies(1, rawResponse)
  \/ req[1].iteration > 1 /\ ModelReplies(1, AnswerText)
  \/ ChunkDelay(1)
  \/ ToolSettles(1, req[1].iteration, OkOutcome)

SpecParse == InitParse /\ [][NextParse]_vars

(***************************************************************************)
(* SpecStream: one connection and one chat message, answered at once with  *)
(* a final answer of a chosen number of words; every second word is "w",   *)
(* the others are "w", empty (two spaces in a row) or hold a line break.   *)
(***************************************************************************)
AnswerLengths == {1, 2, 9, 10, 11, 19, 20, 21}

AnswerOf(n, filler) ==
  "Final Answer: "
    \o Join([k \in 1..n |-> IF k % 2 = 1 THEN "w" ELSE filler], " ")

StreamTexts ==
  {AnswerOf(n, filler) : n \in AnswerLengths, filler \in {"w", "", "a\nb"}}

InitStream ==
  /\ InitServer
  /\ rawResponse \in StreamTexts
  /\ InitRest
  /\ graph = NoRun
  /\ InitBrowser
  /\ InitCache

NextStream ==
  \/ Connect(1)
  \/ \E c \in UserMessages : Chat(1, 1, c)
  \/ Classified(1, "general")
  \/ ModelReplies(1, rawResponse)
  \/ ChunkDelay(1)

SpecStream == InitStream /\ [][NextStream]_vars

(***************************************************************************)
(* The advanced agent graph (createAdvancedGraph): one step per node, with *)
(* the reducers of AgentState applied to what the node returns and the     *)
(* router of the node's outgoing edge.                                     *)
(***************************************************************************)
QualityThreshold == 7
DefaultScore == 5

GraphInputs ==
  {"Write a poem about AI", "Calculate 234 * 567",
   "Analyze the benefits of TypeScript", "What is LangGraph?"}

\* the scores the quality model may answer with; DefaultScore when its
\* answer holds no digit
Scores == {3, DefaultScore, 6, QualityThreshold, 10}

AgentNodes == {"simple", "creative", "calculation", "analysis"}

\* String.prototype.includes
Includes(s, pat) == Occurrences(s, pat) # {}

\* classifierNode: the step chosen from the words of the last message
ClassifyStep(text) ==
  LET content == ToLower(text)
  IN  IF \E w \in {"write", "create", "draft"} : Includes(content, w)
      THEN "creative"
      ELSE IF \E w \in {"calculate", "math", "compute"} : Includes(content, w)
      THEN "calculation"
      ELSE IF \E w \in {"analyze", "review", "check"} : Includes(content, w)
      THEN "analysis"
      ELSE "simple"

routeAfterClassification(state) == state.currentStep

routeAfterAgent(state) == IF state.toolCalls THEN "tools" ELSE "quality_check"

routeAfterQualityCheck(state) ==
  IF state.qualityScore < QualityThreshold /\ state.iteration < state.maxIterations
  THEN "reflect"
  ELSE "summarize"

\* app.invoke({messages: [new HumanMessage(userInput)]})
Invoke(userInput) ==
  /\ graph.node \in {"START", "END"}
  /\ graph' = [NoRun EXCEPT !.input = userInput, !.messages = 1,
                            !.node = "classifier"]
  /\ UNCHANGED <<serverVars, rawResponse, restVars, browserVars, cacheVars>>

ClassifierNode ==
  /\ graph.node = "classifier"
  /\ LET state == [graph EXCEPT !.currentStep = ClassifyStep(graph.input),
                                !.scratchpad = @ + 1]
     IN  graph' = [state EXCEPT !.node = routeAfterClassification(state)]
  /\ UNCHANGED <<serverVars, rawResponse, restVars, browserVars, cacheVars>>

\* agentNode: the model answered, with or without tool calls
AgentNode(toolCalls) ==
  /\ graph.node \in AgentNodes
  /\ LET state == [graph EXCEPT !.messages = @ + 1, !.toolCalls = toolCalls,
                                !.iteration = @ + 1]
     IN  graph' = [state EXCEPT !.node = routeAfterAgent(state)]
  /\ UNCHANGED <<serverVars, rawResponse, restVars, browserVars, cacheVars>>

\* ToolNode: a tool message is appended
ToolsNode ==
  /\ graph.node = "tools"
  /\ graph' = [graph EXCEPT !.messages = @ + 1, !.toolCalls = FALSE,
                            !.node = "quality_check"]
  /\ UNCHANGED <<serverVars, rawResponse, restVars, browserVars, cacheVars>>

\* qualityCheckerNode: the node returns [...state.scratchpad, note] and the
\* reducer appends that to the scratchpad
QualityCheckerNode(score) ==
  /\ graph.node = "quality_check"
  /\ LET state == [graph EXCEPT !.qualityScore = score,
                                !.scratchpad = @ + @ + 1]
     IN  graph' = [state EXCEPT !.node = routeAfterQualityCheck(state)]
  /\ UNCHANGED <<serverVars, rawResponse, restVars, browserVars, cacheVars>>

ReflectionNode ==
  /\ graph.node = "reflect"
  /\ graph.reflections < MaxReflections
  /\ graph' = [graph EXCEPT !.messages = @ + 1, !.scratchpad = @ + @ + 1,
                            !.reflections = @ + 1, !.node = "quality_check"]
  /\ UNCHANGED <<serverVars, rawResponse, restVars, browserVars, cacheVars>>

SummarizerNode ==
  /\ graph.node = "summarize"
  /\ graph' = [graph EXCEPT !.scratchpad = @ + @ + 1, !.node = "END"]
  /\ UNCHANGED <<serverVars, rawResponse, restVars, browserVars, cacheVars>>

NextGraph ==
  \/ \E userInput \in GraphInputs : Invoke(userInput)
  \/ ClassifierNode
  \/ \E toolCalls \in BOOLEAN : AgentNode(toolCalls)
  \/ ToolsNode
  \/ \E score \in Scores : QualityCheckerNode(score)
  \/ ReflectionNode
  \/ SummarizerNode

SpecGraph == Init /\ [][NextGraph]_vars

(***************************************************************************)
(* The shared browser of browser_navigate and browser_extract (tools.ts),  *)
(* cut at the awaits of getBrowser, of the page work and of closeBrowser.  *)
(***************************************************************************)
\* what chromium.launch resolves with: a browser not seen before
NewBrowser == Min({b \in BrowserIds : browsers[b] = "none"})

\* the func of a browser tool is called: getBrowser up to its await, or,
\* when there is an instance, up to the await of browser.newPage()
CallBrowserTool(c) ==
  /\ browserCalls[c].pc = "idle"
  /\ browserCalls' = [browserCalls EXCEPT ![c] =
       IF browserInstance = 0
       THEN [pc |-> "launch", browser |-> 0]
       ELSE [pc |-> "page", browser |-> browserInstance]]
  /\ UNCHANGED <<serverVars, rawResponse, restVars, graph, browserInstance,
                 browsers, cacheVars>>

\* chromium.launch resolved: browserInstance = <the new browser>, return
\* browserInstance, browser.newPage()
Launched(c) ==
  /\ browserCalls[c].pc = "launch"
  /\ browsers' = [browsers EXCEPT ![NewBrowser] = "open"]
  /\ browserInstance' = NewBrowser
  /\ browserCalls' = [browserCalls EXCEPT ![c] = [pc |-> "page", browser |-> NewBrowser]]
  /\ UNCHANGED <<serverVars, rawResponse, restVars, graph, cacheVars>>

\* the page work is over (or has failed), page.close(), the tool returns
PageClosed(c) ==
  /\ browserCalls[c].pc = "page"
  /\ browserCalls' = [browserCalls EXCEPT ![c].pc = "done"]
  /\ UNCHANGED <<serverVars, rawResponse, restVars, graph, browserInstance,
                 browsers, cacheVars>>

\* closeBrowser up to the await of browserInstance.close()
CloseBrowser ==
  /\ browserInstance # 0
  /\ browsers[browserInstance] = "open"
  /\ browsers' = [browsers EXCEPT ![browserInstance] = "closing"]
  /\ UNCHANGED <<serverVars, rawResponse, restVars, graph, browserInstance,
                 browserCalls, cacheVars>>

\* browserInstance.close() resolved: browserInstance = null
BrowserClosed(b) ==
  /\ browsers[b] = "closing"
  /\ browsers' = [browsers EXCEPT ![b] = "closed"]
  /\ browserInstance' = 0
  /\ UNCHANGED <<serverVars, rawResponse, restVars, graph, browserCalls,
                 cacheVars>>

NextBrowser ==
  \/ \E c \in Calls : CallBrowserTool(c)
  \/ \E c \in Calls : Launched(c)
  \/ \E c \in Calls : PageClosed(c)
  \/ CloseBrowser
  \/ \E b \in BrowserIds : BrowserClosed(b)

SpecBrowser == Init /\ [][NextBrowser]_vars

(***************************************************************************)
(* The search cache of web_search (tools.ts).  A Map keeps its keys in     *)
(* insertion order; setting an existing key keeps the key's place.         *)
(***************************************************************************)
\* query.toLowerCase().trim()
Normalize(query) == Trim(ToLower(query))

\* the place of key in the Map, 0 when it is not there
MapIndex(cache, key) ==
  IF \A k \in DOMAIN cache : cache[k].key # key THEN 0
  ELSE CHOOSE k \in DOMAIN cache : cache[k].key = key

MapDelete(cache, key) == SelectSeq(cache, LAMBDA e : e.key # key)

MapSet(cache, entry) ==
  IF MapIndex(cache, entry.key) = 0 THEN Append(cache, entry)
  ELSE [cache EXCEPT ![MapIndex(cache, entry.key)] = entry]

\* variant: an entry expires as soon as its age reaches CACHE_TTL
getCachedSearch_AtTtl(cache, query, t) ==
  LET normalized == Normalize(query)
      k == MapIndex(cache, normalized)
  IN  IF k = 0 THEN [found |-> FALSE, result |-> "", cache |-> cache]
      ELSE IF t - cache[k].timestamp >= CACHE_TTL
      THEN [found |-> FALSE, result |-> "", cache |-> MapDelete(cache, normalized)]
      ELSE [found |-> TRUE, result |-> cache[k].result,
            cache |-> [cache EXCEPT ![k].used = t]]

\* getCachedSearch at time t: null (found = FALSE) or the result, and the
\* Map afterwards
getCachedSearch(cache, query, t) ==
  LET normalized == Normalize(query)
      k == MapIndex(cache, normalized)
  IN  IF k = 0 THEN [found |-> FALSE, result |-> "", cache |-> cache]
      ELSE IF t - cache[k].timestamp > CACHE_TTL
      THEN [found |-> FALSE, result |-> "", cache |-> MapDelete(cache, normalized)]
      ELSE [found |-> TRUE, result |-> cache[k].result,
            cache |-> [cache EXCEPT ![k].used = t]]

\* variant: nothing is removed when the cache is full
setCachedSearch_NoEviction(cache, query, result, t) ==
  MapSet(cache, [key |-> Normalize(query), result |-> result,
                 timestamp |-> t, used |-> t])

\* setCachedSearch at time t: the Map afterwards
setCachedSearch(cache, query, result, t) ==
  LET kept == IF Len(cache) >= MAX_CACHE_SIZE
              THEN MapDelete(cache, cache[1].key)
              ELSE cache
  IN  MapSet(kept, [key |-> Normalize(query), result |-> result,
                    timestamp |-> t, used |-> t])

\* the text webSearchTool builds from one Tavily result
SearchOutput(query) ==
  "Web search results for \"" \o query \o "\":\n\n"
    \o "1. Title\n   URL: https://example.com\n\n"
    \o "\nFound 1 results. Use browser_navigate to read full articles."

NoResults(query) ==
  "No search results found for \"" \o query
    \o "\". Try rephrasing your query or using browser_navigate to visit specific websites."

SearchError(query) ==
  "Error searching with Tavily for \"" \o query
    \o "\": Unauthorized. Make sure TAVILY_API_KEY is set in .env file."

\* webSearchTool.func up to the await of tavilyClient.search
Search(k, query) ==
  /\ searches[k].pc = "idle"
  /\ LET cached == getCachedSearch(searchCache, query, now)
     IN  /\ searchCache' = cached.cache
         /\ searches' = [searches EXCEPT ![k] =
              IF cached.found /\ cached.result # ""
              THEN [pc |-> "done", query |-> query, result |-> cached.result,
                    hit |-> TRUE]
              ELSE [pc |-> "tavily", query |-> query, result |-> "",
                    hit |-> FALSE]]
  /\ UNCHANGED <<serverVars, rawResponse, restVars, graph, browserVars, now>>

\* tavilyClient.search settled: with results, without any, or rejected
TavilyReturns(k, outcome) ==
  /\ searches[k].pc = "tavily"
  /\ LET query == searches[k].query
     IN  IF outcome = "results"
         THEN /\ searchCache' = setCachedSearch(searchCache, query,
                                                SearchOutput(query), now)
              /\ searches' = [searches EXCEPT ![k].pc = "done",
                                              ![k].result = SearchOutput(query)]
         ELSE /\ searches' = [searches EXCEPT ![k].pc = "done",
                    ![k].result = IF outcome = "empty" THEN NoResults(query)
                                  ELSE SearchError(query)]
              /\ UNCHANGED searchCache
  /\ UNCHANGED <<serverVars, rawResponse, restVars, graph, browserVars, now>>

\* time passes up to one of the instants looked at
Instants == {CACHE_TTL + 1, CACHE_TTL + 2, 2 * CACHE_TTL + 2 * MAX_CACHE_SIZE}

Tick(t) ==
  /\ t > now
  /\ now' = t
  /\ UNCHANGED <<serverVars, rawResponse, restVars, graph, browserVars,
                 searchCache, searches>>

\* the cache after n earlier searches, stored one millisecond apart
PriorQuery(k) == "query " \o ToString(k)

PriorEntries(n) ==
  [k \in 1..n |-> [key |-> PriorQuery(k), result |-> SearchOutput(PriorQuery(k)),
                   timestamp |-> k, used |-> k]]

SearchQueries == {" Query 1 ", "cats", "Dogs"}

InitSearch ==
  /\ InitServer
  /\ rawResponse = ""
  /\ InitRest
  /\ graph = NoRun
  /\ InitBrowser
  /\ \E n \in {0, MAX_CACHE_SIZE - 1, MAX_CACHE_SIZE} :
       searchCache = PriorEntries(n)
  /\ now = MAX_CACHE_SIZE
  /\ searches = [k \in Searches |-> IdleSearch]

NextSearch ==
  \/ \E k \in Searches, query \in SearchQueries :
       (\A j \in 1..(k - 1) : searches[j].pc # "idle") /\ Search(k, query)
  \/ \E k \in Searches, outcome \in {"results", "empty", "error"} :
       TavilyReturns(k, outcome)
  \/ \E t \in Instants : Tick(t)

SpecSearch == InitSearch /\ [][NextSearch]_vars

(***************************************************************************)
(* The chat model in use (web-server.ts).  model is a variable of the      *)
(* module that POST /api/models assigns and that every model.invoke reads. *)
(* SpecModels: one connection and one chat message, answered after at most *)
(* MaxModelCalls calculator actions; at any time a client posts a model.   *)
(***************************************************************************)
\* app.post("/api/models"): 400 without a modelId, else the new chat model
SetModel(modelId) ==
  /\ model' = IF modelId = "" THEN model ELSE modelId
  /\ UNCHANGED <<serverVars, rawResponse, graph, browserVars, cacheVars,
                 saverVars, clientVars, notesVars, fileVars>>

NextModels ==
  \/ Connect(1)
  \/ \E c \in UserMessages : Chat(1, 1, c)
  \/ Classified(1, "general")
  \/ ModelReplies(1, AnswerText)
  \/ req[1].toolExecs < MaxModelCalls /\ ModelReplies(1, CallText)
  \/ ChunkDelay(1)
  \/ ToolSettles(1, req[1].iteration, OkOutcome)
  \/ \E m \in ModelIds \cup {""} : SetModel(m)

SpecModels == Init /\ [][NextModels]_vars

(***************************************************************************)
(* The JSON export (web-server.ts): what GET /api/export/:sessionId/json   *)
(* answers in the current state; the route changes nothing.                *)
(***************************************************************************)
\* history.map((msg, index) => ({index, role, content, timestamp}))
ExportEntries(history) ==
  [k \in 1..Len(history) |->
     [index |-> k - 1, role |-> history[k].role, content |-> history[k].content]]

\* app.get("/api/export/:sessionId/json")
ExportJson(sessionId) ==
  LET history == IF sessions[sessionId] = 0 THEN <<>>
                 ELSE arrays[sessions[sessionId]]
  IN  IF history = <<>>
      THEN [status |-> 404, model |-> "", messageCount |-> 0, messages |-> <<>>]
      ELSE [status |-> 200, model |-> model, messageCount |-> Len(history),
            messages |-> SelectSeq(ExportEntries(history),
                                   LAMBDA msg : msg.role # "system")]

(***************************************************************************)
(* MemoryCheckpointSaver (part_003).  A config names its thread with       *)
(* thread_id or names none; a caller puts checkpoints 1..MaxCheckpoints.   *)
(* lastPut records, per thread id as the caller named it (a config without *)
(* thread_id names the thread "default"), the checkpoint put last.         *)
(***************************************************************************)
\* config.configurable?.thread_id || "default"
ThreadOf(config) ==
  IF ~config.has \/ config.thread_id = "" THEN "default" ELSE config.thread_id

\* clearThread(threadId: string = "default")
ClearedThread(arg) == IF ~arg.has THEN "default" ELSE arg.thread_id

\* the thread id a caller names with a config or an argument
NamedThread(config) == IF ~config.has THEN "default" ELSE config.thread_id

\* getTuple(config): the tuple stored, NoTuple for undefined
getTuple(config) == checkpoints[ThreadOf(config)]

\* put(config, checkpoint, metadata)
Put(config, checkpoint) ==
  /\ checkpoints' =
       [checkpoints EXCEPT ![ThreadOf(config)] =
          [thread_id |-> ThreadOf(config), checkpoint |-> checkpoint,
           parentConfig |-> IF config.has /\ config.thread_id # ""
                            THEN config ELSE NoThread]]
  /\ lastPut' = [lastPut EXCEPT ![NamedThread(config)] = checkpoint]
  /\ UNCHANGED <<serverVars, rawResponse, graph, browserVars, cacheVars,
                 model, clientVars, notesVars, fileVars>>

\* clearThread(threadId)
ClearThread(arg) ==
  /\ checkpoints' = [checkpoints EXCEPT ![ClearedThread(arg)] = NoTuple]
  /\ lastPut' = [lastPut EXCEPT ![NamedThread(arg)] = 0]
  /\ UNCHANGED <<serverVars, rawResponse, graph, browserVars, cacheVars,
                 model, clientVars, notesVars, fileVars>>

\* clearAll()
ClearAll ==
  /\ checkpoints' = [t \in ThreadIds |-> NoTuple]
  /\ lastPut' = [t \in ThreadIds |-> 0]
  /\ UNCHANGED <<serverVars, rawResponse, graph, browserVars, cacheVars,
                 model, clientVars, notesVars, fileVars>>

NextSaver ==
  \/ \E config \in Configs, c \in CheckpointIds : Put(config, c)
  \/ \E arg \in Configs : ClearThread(arg)
  \/ ClearAll

SpecSaver == Init /\ [][NextSaver]_vars

(***************************************************************************)
(* The browser client (the script documented in API.md): its WebSocket,    *)
(* the handlers connectWebSocket installs on it and the reconnection       *)
(* timer.  Time passes in steps of TickMs.  socket.reconnect tells whether *)
(* the socket was made by the timer; reconnects records the reconnections  *)
(* made and failed since the last open, and the delay scheduled last.      *)
(***************************************************************************)
MAX_RECONNECT_ATTEMPTS == 5

RECONNECT_DELAY == 2000

\* connectWebSocket(): ws = new WebSocket(wsUrl), the handlers installed
connectWebSocket(reconnect) ==
  socket' = [state |-> "connecting", reconnect |-> reconnect]

\* startChat(), the click on the start button of the welcome screen
StartChat ==
  /\ socket = NoSocket
  /\ connectWebSocket(FALSE)
  /\ UNCHANGED <<isConnected, reconnectAttempts, reconnectTimer,
                 connectionStatus, reconnects>>
  /\ UNCHANGED <<serverVars, rawResponse, graph, browserVars, cacheVars,
                 model, saverVars, notesVars, fileVars>>

\* ws.onopen
OnOpen ==
  /\ socket.state = "connecting"
  /\ socket' = [socket EXCEPT !.state = "open"]
  /\ isConnected' = TRUE
  /\ reconnectAttempts' = 0
  /\ connectionStatus' = "connected"
  /\ reconnects' = NoReconnects
  /\ UNCHANGED reconnectTimer
  /\ UNCHANGED <<serverVars, rawResponse, graph, browserVars, cacheVars,
                 model, saverVars, notesVars, fileVars>>

\* ws.onerror
OnSocketError ==
  /\ socket.state \in {"connecting", "open"}
  /\ connectionStatus' = "error"
  /\ UNCHANGED <<socket, isConnected, reconnectAttempts, reconnectTimer, reconnects>>
  /\ UNCHANGED <<serverVars, rawResponse, graph, browserVars, cacheVars,
                 model, saverVars, notesVars, fileVars>>

\* what a close adds to the record: a socket of the timer that never opened
\* is a failed reconnection
Failed(delay) ==
  [reconnects EXCEPT
     !.failed = IF socket.reconnect /\ socket.state = "connecting"
                THEN @ + 1 ELSE @,
     !.delay = delay]

\* variant: one more reconnection is allowed
OnClose_OneMore ==
  /\ socket.state \in {"connecting", "open"}
  /\ socket' = [socket EXCEPT !.state = "closed"]
  /\ isConnected' = FALSE
  /\ connectionStatus' = "disconnected"
  /\ IF reconnectAttempts <= MAX_RECONNECT_ATTEMPTS
     THEN LET delay == RECONNECT_DELAY * 2 ^ reconnectAttempts
          IN  /\ reconnectAttempts' = reconnectAttempts + 1
              /\ reconnectTimer' = delay
              /\ reconnects' = Failed(delay)
     ELSE /\ reconnects' = Failed(0)
          /\ UNCHANGED <<reconnectAttempts, reconnectTimer>>
  /\ UNCHANGED <<serverVars, rawResponse, graph, browserVars, cacheVars,
                 model, saverVars, notesVars, fileVars>>

\* ws.onclose
OnClose ==
  /\ socket.state \in {"connecting", "open"}
  /\ socket' = [socket EXCEPT !.state = "closed"]
  /\ isConnected' = FALSE
  /\ connectionStatus' = "disconnected"
  /\ IF reconnectAttempts < MAX_RECONNECT_ATTEMPTS
     THEN LET delay == RECONNECT_DELAY * 2 ^ reconnectAttempts
          IN  /\ reconnectAttempts' = reconnectAttempts + 1
              /\ reconnectTimer' = delay
              /\ reconnects' = Failed(delay)
     ELSE /\ reconnects' = Failed(0)
          /\ UNCHANGED <<reconnectAttempts, reconnectTimer>>
  /\ UNCHANGED <<serverVars, rawResponse, graph, browserVars, cacheVars,
                 model, saverVars, notesVars, fileVars>>

\* TickMs of the delay pass
Elapse ==
  /\ reconnectTimer > TickMs
  /\ reconnectTimer' = reconnectTimer - TickMs
  /\ UNCHANGED <<socket, isConnected, reconnectAttempts, connectionStatus, reconnects>>
  /\ UNCHANGED <<serverVars, rawResponse, graph, browserVars, cacheVars,
                 model, saverVars, notesVars, fileVars>>

\* the callback of setTimeout(..., delay)
TimerFires ==
  /\ reconnectTimer > 0
  /\ reconnectTimer <= TickMs
  /\ reconnectTimer' = 0
  /\ connectionStatus' = "connecting"
  /\ connectWebSocket(TRUE)
  /\ reconnects' = [reconnects EXCEPT !.made = @ + 1]
  /\ UNCHANGED <<isConnected, reconnectAttempts>>
  /\ UNCHANGED <<serverVars, rawResponse, graph, browserVars, cacheVars,
                 model, saverVars, notesVars, fileVars>>

NextClient ==
  \/ StartChat
  \/ OnOpen
  \/ OnSocketError
  \/ OnClose
  \/ Elapse
  \/ TimerFires

SpecClient == Init /\ [][NextClient]_vars

(***************************************************************************)
(* The note tools (tools.ts): one Map for the process.  A tool call is     *)
(* made by the ReACT loop of some session; the tools take no session.      *)
(* taken[s] is the Map that the take_note calls of session s alone build.  *)
(***************************************************************************)
NoteKeys == {"todo", "name"}

NoteContents ==
  {"", "buy milk", "a note of more than fifty characters, cut in the list"}

\* noteTool.func
takeNote(map, key, content) ==
  [map |-> MapSet(map, [key |-> key, content |-> content]),
   result |-> "Note saved with key \"" \o key \o "\""]

\* getNoteTool.func
getNote(map, key) ==
  LET k == MapIndex(map, key)
  IN  IF k # 0 /\ map[k].content # ""
      THEN "Note \"" \o key \o "\": " \o map[k].content
      ELSE "No note found with key \"" \o key \o "\""

\* listNotesTool.func
listNotes(map) ==
  IF Len(map) = 0 THEN "No notes saved yet."
  ELSE "Saved notes:\n"
       \o Join([k \in DOMAIN map |->
                  "- " \o map[k].key \o ": " \o Substring0(map[k].content, 50)
                  \o (IF Len(map[k].content) > 50 THEN "..." ELSE "")], "\n")

\* take_note called in session s
TakeNote(s, key, content) ==
  /\ notes' = takeNote(notes, key, content).map
  /\ taken' = [taken EXCEPT ![s] = takeNote(@, key, content).map]
  /\ noteCall' = [session |-> s, tool |-> "take_note", key |-> key,
                  result |-> takeNote(notes, key, content).result]
  /\ UNCHANGED <<serverVars, rawResponse, graph, browserVars, cacheVars,
                 model, saverVars, clientVars, fileVars>>

\* get_note called in session s
GetNote(s, key) ==
  /\ noteCall' = [session |-> s, tool |-> "get_note", key |-> key,
                  result |-> getNote(notes, key)]
  /\ UNCHANGED <<notes, taken>>
  /\ UNCHANGED <<serverVars, rawResponse, graph, browserVars, cacheVars,
                 model, saverVars, clientVars, fileVars>>

\* list_notes called in session s
ListNotes(s) ==
  /\ noteCall' = [session |-> s, tool |-> "list_notes", key |-> "",
                  result |-> listNotes(notes)]
  /\ UNCHANGED <<notes, taken>>
  /\ UNCHANGED <<serverVars, rawResponse, graph, browserVars, cacheVars,
                 model, saverVars, clientVars, fileVars>>

NextNotes ==
  \/ \E s \in Sessions, key \in NoteKeys, content \in NoteContents :
       TakeNote(s, key, content)
  \/ \E s \in Sessions, key \in NoteKeys : GetNote(s, key)
  \/ \E s \in Sessions : ListNotes(s)

SpecNotes == Init /\ [][NextNotes]_vars

(***************************************************************************)
(* The file tools (tools.ts) on a POSIX filesystem.  fileCall.fs lists the *)
(* calls of fs the tool made, in order.                                    *)
(***************************************************************************)
FilePaths ==
  {"data.txt", "/app/data.txt", "out/new.txt", ".env", ".", "",
   "../app-backup/secret.txt", "/app-backup/new.txt", "/etc/passwd",
   "../etc/passwd", "/app/../etc/passwd", "/app-backup/../app/data.txt"}

FileContents == {"x", "yy"}

\* the pieces of a path between its "/"
RECURSIVE PathSegments(_)
PathSegments(s) ==
  LET p == IndexOf(s, "/")
  IN  IF p = 0 THEN <<s>>
      ELSE <<SubSeq(s, 1, p - 1)>> \o PathSegments(From(s, p + 1))

\* path.normalize of an absolute path, segment by segment
RECURSIVE Normalized(_, _)
Normalized(segs, acc) ==
  IF segs = <<>> THEN acc
  ELSE LET h == Head(segs)
       IN  Normalized(Tail(segs),
             IF h \in {"", "."} THEN acc
             ELSE IF h = ".."
             THEN IF acc = <<>> THEN acc ELSE SubSeq(acc, 1, Len(acc) - 1)
             ELSE Append(acc, h))

\* path.resolve(filePath)
Resolve(filePath) ==
  LET abs == IF MatchAt(filePath, 1, "/") THEN filePath
             ELSE Cwd \o "/" \o filePath
  IN  "/" \o Join(Normalized(PathSegments(abs), <<>>), "/")

\* path.basename and path.dirname of a resolved path
Basename(resolvedPath) ==
  LET segs == Normalized(PathSegments(resolvedPath), <<>>)
  IN  IF segs = <<>> THEN "" ELSE segs[Len(segs)]

Dirname(resolvedPath) ==
  LET segs == Normalized(PathSegments(resolvedPath), <<>>)
  IN  IF segs = <<>> THEN "/" ELSE "/" \o Join(SubSeq(segs, 1, Len(segs) - 1), "/")

\* resolvedPath.startsWith(allowedDir)
Allowed(resolvedPath) == MatchAt(resolvedPath, 1, Cwd)

sensitiveFiles == {".env", "package.json", "package-lock.json", ".git"}

\* the directories fs.mkdir(dir, {recursive: true}) makes
RECURSIVE Missing(_, _)
Missing(disk, dir) ==
  IF dir = "/" \/ disk[dir].kind # "none" THEN {}
  ELSE {dir} \cup Missing(disk, Dirname(dir))

\* fileReadTool.func: the result and the calls of fs
readFile(disk, filePath) ==
  LET resolvedPath == Resolve(filePath)
      stats == disk[resolvedPath]
  IN  IF ~Allowed(resolvedPath)
      THEN [result |-> "Error: Access denied. Can only read files within project directory.",
            fs |-> <<>>]
      ELSE IF stats.kind = "none"
      THEN [result |-> "Error reading file: ENOENT: no such file or directory, stat '"
                       \o resolvedPath \o "'",
            fs |-> <<"stat">>]
      ELSE IF stats.kind # "file"
      THEN [result |-> "Error: " \o filePath \o " is not a file", fs |-> <<"stat">>]
      ELSE IF Len(stats.content) > 1024 * 1024
      THEN [result |-> "Error: File too large", fs |-> <<"stat">>]
      ELSE [result |-> "File: " \o filePath \o "\nSize: " \o ToString(Len(stats.content))
                       \o " bytes\n\nContent:\n" \o stats.content,
            fs |-> <<"stat", "readFile">>]

\* fileWriteTool.func: the result, the calls of fs and the disk afterwards
writeFile(disk, filePath, content) ==
  LET resolvedPath == Resolve(filePath)
      filename == ToLower(Basename(resolvedPath))
      dir == Dirname(resolvedPath)
      made == [p \in DOMAIN disk |-> IF p \in Missing(disk, dir) THEN Dir ELSE disk[p]]
  IN  IF ~Allowed(resolvedPath)
      THEN [result |-> "Error: Access denied. Can only write files within project directory.",
            fs |-> <<>>, disk |-> disk]
      ELSE IF \E sf \in sensitiveFiles : Occurrences(filename, sf) # {}
      THEN [result |-> "Error: Cannot overwrite sensitive file: " \o filename,
            fs |-> <<>>, disk |-> disk]
      ELSE IF made[dir].kind # "dir"
      THEN [result |-> "Error writing file: EEXIST: file already exists, mkdir '"
                       \o dir \o "'",
            fs |-> <<"mkdir">>, disk |-> disk]
      ELSE IF made[resolvedPath].kind = "dir"
      THEN [result |-> "Error writing file: EISDIR: illegal operation on a directory, open '"
                       \o resolvedPath \o "'",
            fs |-> <<"mkdir", "writeFile">>, disk |-> made]
      ELSE [result |-> "Successfully wrote " \o ToString(Len(content)) \o " bytes to "
                       \o filePath,
            fs |-> <<"mkdir", "writeFile", "stat">>,
            disk |-> [made EXCEPT ![resolvedPath] = File(content)]]

\* read_file called with filePath
ReadFile(filePath) ==
  /\ fileCall' = [tool |-> "read_file", filePath |-> filePath,
                  result |-> readFile(files, filePath).result,
                  fs |-> readFile(files, filePath).fs]
  /\ UNCHANGED files
  /\ UNCHANGED <<serverVars, rawResponse, graph, browserVars, cacheVars,
                 model, saverVars, clientVars, notesVars>>

\* write_file called with filePath and content
WriteFile(filePath, content) ==
  /\ fileCall' = [tool |-> "write_file", filePath |-> filePath,
                  result |-> writeFile(files, filePath, content).result,
                  fs |-> writeFile(files, filePath, content).fs]
  /\ files' = writeFile(files, filePath, content).disk
  /\ UNCHANGED <<serverVars, rawResponse, graph, browserVars, cacheVars,
                 model, saverVars, clientVars, notesVars>>

NextFiles ==
  \/ \E filePath \in FilePaths : ReadFile(filePath)
  \/ \E filePath \in FilePaths, content \in FileContents : WriteFile(filePath, content)

SpecFiles == Init /\ [][NextFiles]_vars

(***************************************************************************)
(* Vocabulary of the properties.                                           *)
(***************************************************************************)
\* the events sent for request r, in order
EventsOf(r) ==
  IF req[r].sessionId = 0 THEN <<>>
  ELSE SelectSeq(sent[req[r].sessionId], LAMBDA e : e.req = r)

\* the history array request r works on
HistoryOf(r) == IF req[r].history = 0 THEN <<>> ELSE arrays[req[r].history]

LimitMessage == "Maximum iteration limit reached. Please try rephrasing your question."

IsLimitError(e) == e.type = "error" /\ e.content = LimitMessage

LimitErrors(es) == Cardinality({k \in DOMAIN es : IsLimitError(es[k])})

\* the tool calls of request r that have produced their notification
Settled(r) == CountTypes(EventsOf(r), {"tool-result", "tool-error"})

Last(q) == q[Len(q)]

(***************************************************************************)
(* C1: a request whose model invocations do not fail ends either with      *)
(* exactly one streamed answer and no iteration-limit error, or with the   *)
(* iteration-limit error after exactly MAX_ITERATIONS tool calls and no    *)
(* streamed answer; never both, never neither.                             *)
(***************************************************************************)
C1_OneOutcome ==
  \A r \in Requests :
    (req[r].pc = "done" /\ ~req[r].modelFailed) =>
      LET es == EventsOf(r)
          streams == CountTypes(es, {"stream-start"})
          limits == LimitErrors(es)
      IN  \/ streams = 1 /\ limits = 0
          \/ /\ limits = 1 /\ streams = 0
             /\ CountTypes(es, {"tool-call"}) = MAX_ITERATIONS

(***************************************************************************)
(* C2: a request makes at most MAX_ITERATIONS model invocations and tool   *)
(* executions; every tool call that was notified, whatever its outcome,    *)
(* has used up one model invocation; when MAX_ITERATIONS tool calls have   *)
(* been notified the request has ended with the iteration-limit error as   *)
(* its last event.                                                         *)
(***************************************************************************)
C2_BoundedIterations ==
  \A r \in Requests :
    LET es == EventsOf(r)
    IN  /\ req[r].modelCalls <= MAX_ITERATIONS
        /\ req[r].toolExecs <= MAX_ITERATIONS
        /\ CountTypes(es, {"tool-call"}) <= MAX_ITERATIONS
        /\ req[r].modelCalls = req[r].iteration
        /\ Settled(r) <= req[r].modelCalls
        /\ req[r].modelCalls <= Settled(r) + 1
        /\ req[r].pc = "invoke" => req[r].modelCalls = Settled(r) + 1
        /\ Settled(r) = MAX_ITERATIONS =>
             /\ req[r].pc = "done"
             /\ req[r].modelCalls = MAX_ITERATIONS
             /\ IsLimitError(Last(es))

\* the loop was ended by the limit after tool calls of every kind of outcome
C2_Witness ==
  /\ req[1].pc = "done"
  /\ Settled(1) = MAX_ITERATIONS
  /\ CountTypes(EventsOf(1), {"tool-error"}) >= 1
  /\ req[1].outcome.kind = "throw"

\* the request ended with a streamed answer: the events from stream-start
\* on are stream-start, one or more stream-chunk, stream-end and nothing
\* else but the iteration-limit error
StreamedLast(es) ==
  \E a, b \in DOMAIN es :
    /\ a < b
    /\ es[a].type = "stream-start"
    /\ es[b].type = "stream-end"
    /\ b > a + 1
    /\ \A k \in (a + 1)..(b - 1) : es[k].type = "stream-chunk"
    /\ \A k \in 1..(a - 1) : es[k].type \notin {"stream-start", "stream-chunk", "stream-end"}
    /\ \A k \in (b + 1)..Len(es) : IsLimitError(es[k])

RECURSIVE ConcatContents(_)
ConcatContents(es) ==
  IF es = <<>> THEN "" ELSE Head(es).content \o ConcatContents(Tail(es))

\* the text carried by the stream-chunk events
StreamedText(es) ==
  ConcatContents(SelectSeq(es, LAMBDA e : e.type = "stream-chunk"))

AITurns(h) == SelectSeq(h, LAMBDA m : m.role = "ai")

StartsWith(s, pat) == MatchAt(s, 1, pat)
EndsWith(s, pat) == MatchAt(s, Len(s) - Len(pat) + 1, pat)
Contains(s, pat) == Occurrences(s, pat) # {}

(***************************************************************************)
(* C3: when the reply parses as a final answer the request emits           *)
(* stream-start, the chunks and stream-end in that order, appends one AI   *)
(* turn holding the raw reply, and does nothing more: no model invocation, *)
(* no tool-call event, no tool execution, no other append.                 *)
(***************************************************************************)
C3_Done(r) ==
  (req[r].pc = "done" /\ req[r].parsed.isDone /\ ~req[r].modelFailed) =>
    /\ StreamedLast(EventsOf(r))
    /\ Last(HistoryOf(r)) = AIMessage(req[r].responseText)
    /\ Len(AITurns(HistoryOf(r))) = Settled(r) + 1
    /\ req[r].modelCalls = Settled(r) + 1

C3_Step(r) ==
  (req[r].parsed.isDone /\ req[r].pc \in {"chunk", "done"}) =>
    /\ req'[r].modelCalls = req[r].modelCalls
    /\ req'[r].toolExecs = req[r].toolExecs
    /\ req'[r].pc \in {"chunk", "done"}
    /\ CountTypes(EventsOf(r)', {"tool-call", "tool-result", "tool-error"})
         = CountTypes(EventsOf(r), {"tool-call", "tool-result", "tool-error"})
    /\ \/ HistoryOf(r)' = HistoryOf(r)
       \/ /\ req[r].pc = "chunk" /\ req'[r].pc = "done"
          /\ HistoryOf(r)' = Append(HistoryOf(r), AIMessage(req[r].responseText))

C3_FinalAnswerStops ==
  /\ [](\A r \in Requests : C3_Done(r))
  /\ [][\A r \in Requests : C3_Step(r)]_vars

\* a final answer given after a tool call has been streamed
C3_Witness ==
  /\ req[1].pc = "done"
  /\ req[1].parsed.isDone
  /\ req[1].parsed.finalAnswer = "The result is 4."
  /\ Settled(1) >= 1
  /\ CountTypes(EventsOf(1), {"stream-end"}) = 1

(***************************************************************************)
(* C4: a reply with neither marker ends the request like a final answer,   *)
(* in whichever iteration: the raw text is streamed between stream-start   *)
(* and stream-end and appended as one AI turn, no tool is executed for it  *)
(* and no error event is emitted.                                          *)
(***************************************************************************)
C4_UnrecognizedIsAnswer ==
  \A r \in Requests :
    (/\ req[r].pc = "done" /\ ~req[r].modelFailed
     /\ req[r].responseText # ""
     /\ ~req[r].parsed.isDone /\ ~req[r].parsed.hasAction) =>
      /\ StreamedLast(EventsOf(r))
      /\ StreamedText(EventsOf(r)) = req[r].responseText \o " "
      /\ Last(HistoryOf(r)) = AIMessage(req[r].responseText)
      /\ CountTypes(EventsOf(r), {"tool-call"}) = Settled(r)
      /\ CountTypes(EventsOf(r), {"error"}) = 0

(***************************************************************************)
(* C5: the step that ends a tool call, whatever the outcome, appends       *)
(* exactly one AI turn '<raw reply>\n\nObservation: <observation>\n\n'     *)
(* holding the whole observation, and the model invocation that follows    *)
(* is made with that turn as the last one of the history.                  *)
(***************************************************************************)
\* the last tool-result or tool-error event
LastSettle(es) ==
  Last(SelectSeq(es, LAMBDA e : e.type \in {"tool-result", "tool-error"}))

ObservationPrefix(r) == req[r].responseText \o "\n\nObservation: "

\* the observation inside a turn of request r
ObservationIn(r, content) ==
  SubSeq(content, Len(ObservationPrefix(r)) + 1, Len(content) - 2)

C5_Step(r) ==
  (req[r].pc = "race" /\ req'[r] # req[r]) =>
    LET h == HistoryOf(r)
        turn == Last(HistoryOf(r)')
        obs == ObservationIn(r, turn.content)
        e == LastSettle(EventsOf(r)')
    IN  /\ Len(HistoryOf(r)') = Len(h) + 1
        /\ SubSeq(HistoryOf(r)', 1, Len(h)) = h
        /\ turn.role = "ai"
        /\ StartsWith(turn.content, ObservationPrefix(r))
        /\ EndsWith(turn.content, "\n\n")
        /\ turn.content = ObservationPrefix(r) \o obs \o "\n\n"
        /\ req'[r].outcome.kind = "ok" => obs = req'[r].outcome.value
        /\ req'[r].outcome.kind = "throw" => Contains(obs, req'[r].outcome.value)
        /\ req'[r].outcome.kind = "timeout" => Contains(obs, "timed out")
        /\ req'[r].outcome.kind = "unknown" => Contains(obs, "Unknown tool")
        /\ e.type = "tool-result" => e.result = ResultField(obs)
        /\ e.type = "tool-error" => e.error = obs
        /\ req'[r].pc \in {"invoke", "done"}

C5_ObservationTurn == [][\A r \in Requests : C5_Step(r)]_vars

\* a model invocation starts with the turn of a timed-out tool call last
C5_Witness ==
  /\ req[1].pc = "invoke"
  /\ req[1].outcome.kind = "timeout"
  /\ Contains(Last(HistoryOf(1)).content, "\n\nObservation: Error: Tool calculator timed out after 30 seconds\n\n")

(***************************************************************************)
(* C6: a model invocation begins only when every tool call notified        *)
(* before has ended and its turn is in the history; at most one tool call  *)
(* is in flight; the AI turns are in the order of the iterations.          *)
(***************************************************************************)
SettleEvents(es) == SelectSeq(es, LAMBDA e : e.type \in {"tool-result", "tool-error"})

ObservationOf(e) == IF e.type = "tool-result" THEN e.result ELSE e.error

C6_Sequential ==
  \A r \in Requests :
    LET es == EventsOf(r)
        calls == CountTypes(es, {"tool-call"})
        T == SettleEvents(es)
        A == AITurns(HistoryOf(r))
    IN  /\ req[r].pc = "invoke" =>
             /\ calls = Len(T)
             /\ Len(T) = req[r].iteration - 1
             /\ Len(A) = Len(T)
        /\ calls - Len(T) = (IF req[r].pc = "race" THEN 1 ELSE 0)
        /\ Len(A) >= Len(T)
        /\ \A k \in DOMAIN T :
             /\ T[k].toolId = ToolId(k)
             /\ EndsWith(A[k].content, "\n\nObservation: " \o ObservationOf(T[k]) \o "\n\n")

\* the third invocation begins after a failed and a successful tool call
C6_Witness ==
  /\ req[1].pc = "invoke"
  /\ req[1].iteration = 3
  /\ Len(AITurns(HistoryOf(1))) = 2
  /\ Contains(AITurns(HistoryOf(1))[1].content, "timed out")
  /\ Contains(AITurns(HistoryOf(1))[2].content, "The result of 2+2 is 4")

(***************************************************************************)
(* C7: a tool-call event precedes the execution of its tool and is         *)
(* followed by exactly one tool-result or tool-error event with the same   *)
(* toolName and toolId, before any event of the next iteration.            *)
(***************************************************************************)
LoopEvents(es) ==
  SelectSeq(es, LAMBDA e : e.type \in {"tool-call", "tool-result", "tool-error",
                                         "stream-start", "stream-chunk",
                                         "stream-end", "error"})

C7_CallThenOutcome ==
  \A r \in Requests :
    LET P == LoopEvents(EventsOf(r))
    IN  /\ req[r].toolExecs <= CountTypes(P, {"tool-call"})
        /\ req[r].pc = "race" => (P # <<>> /\ Last(P).type = "tool-call")
        /\ \A k \in DOMAIN P :
             /\ P[k].type = "tool-call" =>
                  IF k = Len(P) THEN req[r].pc = "race"
                  ELSE /\ P[k + 1].type \in {"tool-result", "tool-error"}
                       /\ P[k + 1].toolName = P[k].toolName
                       /\ P[k + 1].toolId = P[k].toolId
             /\ P[k].type \in {"tool-result", "tool-error"} =>
                  (k > 1 /\ P[k - 1].type = "tool-call")

\* a tool-error and a tool-result have each followed their tool-call
C7_Witness ==
  /\ CountTypes(EventsOf(1), {"tool-error"}) >= 1
  /\ CountTypes(EventsOf(1), {"tool-result"}) >= 1
  /\ req[1].pc = "race"

(***************************************************************************)
(* C8: tool-result is emitted only for a tool that executed successfully;  *)
(* an unknown tool name, an exception of the tool and a timeout give       *)
(* tool-error.                                                             *)
(***************************************************************************)
C8_EventFollowsOutcome ==
  \A r \in Requests :
    req[r].outcome.kind # "none" =>
      (LastSettle(EventsOf(r)).type = "tool-result" <=> req[r].outcome.kind = "ok")

(***************************************************************************)
(* C9: an action naming an unregistered tool invokes no tool and raises    *)
(* nothing; its observation holds 'Unknown tool', the requested name and   *)
(* the names of all registered tools, is appended to the history, and the  *)
(* request goes on with the loop.                                          *)
(***************************************************************************)
OtherErrors(es) == CountTypes(es, {"error"}) - LimitErrors(es)

C9_Step(r) ==
  (/\ req[r].pc = "race" /\ req'[r] # req[r]
   /\ req[r].parsed.action.action \notin ToolNames) =>
    LET turn == Last(HistoryOf(r)')
        obs == ObservationIn(r, turn.content)
    IN  /\ req'[r].toolExecs = req[r].toolExecs
        /\ ~req'[r].modelFailed
        /\ OtherErrors(EventsOf(r)') = 0
        /\ HistoryOf(r)' = Append(HistoryOf(r), turn)
        /\ turn = AIMessage(ObservationPrefix(r) \o obs \o "\n\n")
        /\ Contains(obs, "Unknown tool")
        /\ Contains(obs, "\"" \o req[r].parsed.action.action \o "\"")
        /\ \A k \in DOMAIN allTools : Contains(obs, allTools[k])
        /\ req'[r].pc = (IF req[r].iteration < MAX_ITERATIONS THEN "invoke" ELSE "done")
        /\ req'[r].modelCalls
             = req[r].modelCalls + (IF req[r].iteration < MAX_ITERATIONS THEN 1 ELSE 0)

C9_NoExecution(r) ==
  LET es == EventsOf(r)
  IN  req[r].toolExecs =
        Cardinality({k \in DOMAIN es : /\ es[k].type = "tool-call"
                                       /\ es[k].toolName \in ToolNames})

C9_UnknownTool ==
  /\ [](\A r \in Requests : C9_NoExecution(r))
  /\ [][\A r \in Requests : C9_Step(r)]_vars

\* the model is invoked again after an unknown tool name
C9_Witness ==
  /\ req[1].pc = "invoke"
  /\ req[1].outcome.kind = "unknown"
  /\ req[1].iteration >= 2
  /\ Contains(Last(HistoryOf(1)).content, "Unknown tool \"nonexistent_tool\"")

(***************************************************************************)
(* C10: an exception of the tool executor is caught by executeReACTAction  *)
(* and becomes the observation, nothing is raised to the loop, the         *)
(* observation is appended to the history and the request goes on with     *)
(* the loop.  The claim gives the observation as 'Error: <message>'; the   *)
(* code renders 'Error executing <tool>: <message>'.                       *)
(***************************************************************************)
C10_Step(r, obs) ==
  (req[r].pc = "race" /\ req'[r] # req[r] /\ req'[r].outcome.kind = "throw") =>
    /\ HistoryOf(r)' = Append(HistoryOf(r), AIMessage(ObservationPrefix(r) \o obs \o "\n\n"))
    /\ ~req'[r].modelFailed
    /\ OtherErrors(EventsOf(r)') = 0
    /\ req'[r].pc = (IF req[r].iteration < MAX_ITERATIONS THEN "invoke" ELSE "done")

\* as claimed: the observation is "Error: <message>"
C10_ErrorMessageOnly ==
  [][\A r \in Requests : C10_Step(r, "Error: " \o req'[r].outcome.value)]_vars

\* as amended: the observation is "Error executing <tool>: <message>"
C10_ErrorExecuting ==
  [][\A r \in Requests :
       C10_Step(r, "Error executing " \o req[r].parsed.action.action \o ": "
                      \o req'[r].outcome.value)]_vars

\* the model is invoked again after a tool threw
C10_Witness ==
  /\ req[1].pc = "invoke"
  /\ req[1].outcome.kind = "throw"
  /\ Contains(Last(HistoryOf(1)).content, "Received tool input did not match expected schema")

(***************************************************************************)
(* C11: when the 30-second timer of a tool call fires while the loop is    *)
(* waiting for the tool, the loop stops waiting although the tool is still *)
(* running: it emits tool-error for that call with an observation holding  *)
(* 'Tool <name> timed out after 30 seconds', appends the observation turn  *)
(* and goes on to the next model invocation, or ends with the              *)
(* iteration-limit error when that was the last iteration.                 *)
(***************************************************************************)
TimerWins(r) ==
  /\ Racing(req[r], req[r].iteration)
  /\ req[r].iteration \in req[r].timers
  /\ req[r].iteration \notin req'[r].timers

C11_Step(r) ==
  TimerWins(r) =>
    LET name == req[r].parsed.action.action
        obs == "Error: Tool " \o name \o " timed out after 30 seconds"
        es == EventsOf(r)'
        e == LastSettle(es)
        last == req[r].iteration = MAX_ITERATIONS
    IN  /\ req[r].iteration \in req'[r].tools
        /\ e.type = "tool-error"
        /\ e.toolName = name
        /\ e.toolId = ToolId(req[r].iteration)
        /\ e.error = obs
        /\ CountTypes(es, {"tool-error"}) = CountTypes(EventsOf(r), {"tool-error"}) + 1
        /\ CountTypes(es, {"tool-result"}) = CountTypes(EventsOf(r), {"tool-result"})
        /\ HistoryOf(r)' = Append(HistoryOf(r),
                                  AIMessage(ObservationPrefix(r) \o obs \o "\n\n"))
        /\ ~last => /\ req'[r].pc = "invoke"
                    /\ req'[r].iteration = req[r].iteration + 1
                    /\ Last(es) = e
        /\ last => /\ req'[r].pc = "done"
                   /\ IsLimitError(Last(es))
                   /\ es[Len(es) - 1] = e

C11_TimeoutUnblocks == [][\A r \in Requests : C11_Step(r)]_vars

\* the tenth tool call timed out: the request ended with the limit error
\* while that tool is still running
C11_Witness ==
  /\ req[1].pc = "done"
  /\ req[1].iteration = MAX_ITERATIONS
  /\ req[1].outcome.kind = "timeout"
  /\ MAX_ITERATIONS \in req[1].tools
  /\ IsLimitError(Last(EventsOf(1)))

(***************************************************************************)
(* C12: the loser of the race is discarded.  When the tool promise of a    *)
(* call settles after the timeout has decided its race, or the timer of a  *)
(* call fires after the tool has decided it, no event is sent, no history  *)
(* changes, the sessions map is unchanged and the request stays where it   *)
(* is.                                                                     *)
(***************************************************************************)
LateTool(r, id) ==
  id \in req[r].tools /\ ~Racing(req[r], id) /\ id \notin req'[r].tools

LateTimer(r, id) ==
  id \in req[r].timers /\ ~Racing(req[r], id) /\ id \notin req'[r].timers

C12_Step(r, id) ==
  /\ LateTool(r, id) =>
       /\ sent' = sent /\ arrays' = arrays /\ sessions' = sessions
       /\ req' = [req EXCEPT ![r].tools = @ \ {id}]
  /\ LateTimer(r, id) =>
       /\ sent' = sent /\ arrays' = arrays /\ sessions' = sessions
       /\ req' = [req EXCEPT ![r].timers = @ \ {id}]

C12_LoserDiscarded ==
  [][\A r \in Requests, id \in 1..MAX_ITERATIONS : C12_Step(r, id)]_vars

\* a tool call timed out, the request went on to its answer, and the tool
\* and the timer have both settled since: the only notification of the call
\* is its tool-error
C12_Witness ==
  /\ req[1].pc = "done"
  /\ req[1].toolExecs = 1
  /\ req[1].tools = {} /\ req[1].timers = {}
  /\ CountTypes(EventsOf(1), {"tool-error"}) = 1
  /\ CountTypes(EventsOf(1), {"tool-result"}) = 0
  /\ CountTypes(EventsOf(1), {"stream-end"}) = 1

(***************************************************************************)
(* C13: for a tool call that resolved with the text o, the result field of *)
(* the tool-result event is o when o has at most ResultLimit characters    *)
(* and the first ResultLimit characters of o followed by '...' when it has *)
(* more; the turn appended to the history holds o in full in both cases.   *)
(***************************************************************************)
ToolWins(r) ==
  /\ Racing(req[r], req[r].iteration)
  /\ req[r].iteration \in req[r].tools
  /\ req[r].iteration \notin req'[r].tools

C13_Step(r) ==
  (ToolWins(r) /\ req'[r].outcome.kind = "ok") =>
    LET o == req'[r].outcome.value
        e == LastSettle(EventsOf(r)')
    IN  /\ e.type = "tool-result"
        /\ e.toolId = ToolId(req[r].iteration)
        /\ Len(o) <= ResultLimit => e.result = o
        /\ Len(o) > ResultLimit =>
             /\ e.result = SubSeq(o, 1, ResultLimit) \o "..."
             /\ Len(e.result) = ResultLimit + Len("...")
        /\ HistoryOf(r)' = Append(HistoryOf(r),
                                  AIMessage(ObservationPrefix(r) \o o \o "\n\n"))

C13_Truncation == [][\A r \in Requests : C13_Step(r)]_vars

\* a result of ResultLimit + 1 characters was notified cut, with the marker,
\* and is in the history in full
C13_Witness ==
  /\ req[1].outcome.kind = "ok"
  /\ Len(req[1].outcome.value) = ResultLimit + 1
  /\ \E k \in DOMAIN EventsOf(1) :
       /\ EventsOf(1)[k].type = "tool-result"
       /\ Len(EventsOf(1)[k].result) = ResultLimit + Len("...")
       /\ EndsWith(EventsOf(1)[k].result, "...")
  /\ \E k \in DOMAIN HistoryOf(1) :
       Contains(HistoryOf(1)[k].content, req[1].outcome.value)

(***************************************************************************)
(* C14: a system turn at the head of a history stays there whatever is     *)
(* done to the history; when a chat message makes the history exceed       *)
(* MAX_HISTORY_LENGTH, the turns removed are the oldest ones after the     *)
(* system turn.                                                            *)
(***************************************************************************)
C14_Step(a) ==
  LET h == arrays[a]
      after == arrays'[a]
      pushed == Append(h, Last(after))
  IN  (h # <<>> /\ h[1].role = "system" /\ after # h) =>
        /\ after # <<>> /\ after[1] = h[1]
        /\ (Last(after).role = "human" /\ Len(pushed) > MAX_HISTORY_LENGTH) =>
             after = <<h[1]>> \o SubSeq(pushed, Len(pushed) - MAX_HISTORY_LENGTH + 2,
                                        Len(pushed))

C14_SystemTurnRetained == [][\A a \in ArrayIds : C14_Step(a)]_vars

(***************************************************************************)
(* C15: the history stored for a session never holds more than             *)
(* MAX_HISTORY_LENGTH messages.                                            *)
(***************************************************************************)
C15_HistoryCapped ==
  \A s \in Sessions :
    sessions[s] # 0 => Len(arrays[sessions[s]]) <= MAX_HISTORY_LENGTH

(***************************************************************************)
(* C20: after a request has ended with the iteration-limit error its       *)
(* session is still registered, and the next chat message of the session   *)
(* works on the same history, which holds the turns of the ended request,  *)
(* in a loop of its own: its iteration counter starts at 0 and counts its  *)
(* own model invocations, up to MAX_ITERATIONS.                            *)
(***************************************************************************)
Exhausted(r) == req[r].pc = "done" /\ LimitErrors(EventsOf(r)) >= 1

C20_UsableAfterExhaustion ==
  \A r, q \in Requests :
    (r < q /\ Exhausted(r)) =>
      LET s == req[r].sessionId
      IN  /\ open[s] => sessions[s] # 0
          /\ (req[q].pc # "idle" /\ req[q].sessionId = s) =>
               /\ req[q].history = req[r].history
               /\ \E k \in DOMAIN HistoryOf(q) :
                    StartsWith(HistoryOf(q)[k].content, req[r].responseText)
               /\ req[q].pc = "classify" => req[q].iteration = 0
               /\ req[q].iteration = req[q].modelCalls
               /\ req[q].modelCalls <= MAX_ITERATIONS
               /\ req[q].modelCalls <= Settled(q) + 1
               /\ req[q].pc = "invoke" => req[q].modelCalls = Settled(q) + 1

\* the chat message after an exhausted request has itself made
\* MAX_ITERATIONS model invocations
C20_Witness ==
  /\ Exhausted(1)
  /\ Settled(1) = MAX_ITERATIONS
  /\ req[2].sessionId = req[1].sessionId
  /\ req[2].pc = "race"
  /\ req[2].modelCalls = MAX_ITERATIONS

(***************************************************************************)
(* C16: a history holds at most one system turn, and a system turn it      *)
(* holds is its first element.                                             *)
(***************************************************************************)
SystemTurns(h) == {k \in DOMAIN h : h[k].role = "system"}

C16_SystemTurnFirst ==
  \A a \in ArrayIds : SystemTurns(arrays[a]) \subseteq {1}

\* two chat messages of one session were answered one after the other: the
\* history holds the system turn and the two exchanges
C16_Witness ==
  /\ req[1].pc = "done" /\ req[2].pc = "done"
  /\ req[2].history = req[1].history
  /\ Len(HistoryOf(2)) >= 5
  /\ SystemTurns(HistoryOf(2)) = {1}
  /\ sessions[req[2].sessionId] = req[2].history

(***************************************************************************)
(* C17: the history a model invocation is made with starts with the system *)
(* prompt turn and holds it once, from the first invocation of a           *)
(* conversation on, however the chat messages of the session arrive.       *)
(* (No history of SpecServer is long enough for an eviction.)              *)
(***************************************************************************)
C17_PromptFirst ==
  \A r \in Requests :
    req[r].pc = "invoke" =>
      /\ HistoryOf(r)[1] = SystemMessage(createReACTPrompt)
      /\ SystemTurns(HistoryOf(r)) = {1}

(***************************************************************************)
(* C18: at most one request of a session is being processed at a time: a   *)
(* chat message is not handled while an earlier request of its session is  *)
(* suspended.                                                              *)
(***************************************************************************)
InProgress(r) == req[r].pc \notin {"idle", "done"}

C18_OneRequestPerSession ==
  \A r, q \in Requests :
    (r # q /\ InProgress(r) /\ InProgress(q)) => req[r].sessionId # req[q].sessionId

(***************************************************************************)
(* C19: a step made for one session (a connection, a close, a chat or      *)
(* clear message, or the continuation of one of its requests) changes      *)
(* nothing of any other session: not its entry in the sessions map, not a  *)
(* history array it stores or one of its requests works on, not a local of *)
(* its requests (the loop counter among them), not its event log.          *)
(***************************************************************************)
RequestsOf(s) == {r \in Requests : req[r].sessionId = s}

\* the history arrays of session s: the stored one and those its requests hold
ArraysOf(s) == ({sessions[s]} \cup {req[r].history : r \in RequestsOf(s)}) \ {0}

\* the step is made for session s
StepOf(s) ==
  \/ open'[s] # open[s]
  \/ sent'[s] # sent[s]
  \/ sessions'[s] # sessions[s]
  \/ \E r \in Requests : req'[r] # req[r] /\ req'[r].sessionId = s

Untouched(s) ==
  /\ sessions'[s] = sessions[s]
  /\ open'[s] = open[s]
  /\ sent'[s] = sent[s]
  /\ \A a \in ArraysOf(s) : arrays'[a] = arrays[a]
  /\ \A r \in RequestsOf(s) : req'[r] = req[r]

C19_SessionsIsolated ==
  [][\A s, t \in Sessions : (s # t /\ StepOf(t)) => Untouched(s)]_vars

\* session 1 was cleared and closed while session 2 holds the exchange of
\* its request
C19_Witness ==
  /\ req[1].sessionId = 1 /\ req[2].sessionId = 2
  /\ CountTypes(sent[1], {"cleared"}) = 1
  /\ ~open[1] /\ open[2]
  /\ req[2].pc = "done"
  /\ sessions[2] = req[2].history
  /\ Len(HistoryOf(2)) = 3
  /\ req[1].history # req[2].history

(***************************************************************************)
(* C21: nothing raised inside the loop escapes executeResponse.  A tool    *)
(* that throws or times out gives an observation and never an error event  *)
(* other than the iteration-limit one; a rejected model invocation ends    *)
(* the request in that step with exactly one error event whose content is  *)
(* 'Error: <message>', without any stream-start, leaves the history array  *)
(* as it was, and is followed by no model invocation, tool call, event or  *)
(* history change of that request.                                         *)
(***************************************************************************)
C21_Ended(r) ==
  req[r].modelFailed =>
    /\ req[r].pc = "done"
    /\ CountTypes(EventsOf(r), {"error"}) = 1
    /\ StartsWith(Last(EventsOf(r)).content, "Error: ")
    /\ CountTypes(EventsOf(r), {"stream-start"}) = 0

C21_Step(r) ==
  /\ (~req[r].modelFailed /\ req'[r].modelFailed) =>
       /\ req[r].pc = "invoke"
       /\ req'[r].pc = "done"
       /\ EventsOf(r)' = Append(EventsOf(r), Last(EventsOf(r)'))
       /\ Last(EventsOf(r)').type = "error"
       /\ HistoryOf(r)' = HistoryOf(r)
       /\ sessions' = sessions
       /\ req'[r].modelCalls = req[r].modelCalls
       /\ req'[r].toolExecs = req[r].toolExecs
  /\ req[r].modelFailed =>
       /\ req'[r].modelFailed
       /\ req'[r].modelCalls = req[r].modelCalls
       /\ req'[r].toolExecs = req[r].toolExecs
       /\ EventsOf(r)' = EventsOf(r)
       /\ HistoryOf(r)' = HistoryOf(r)

C21_NothingEscapes ==
  /\ [](\A r \in Requests :
         /\ C21_Ended(r)
         /\ ~req[r].modelFailed => OtherErrors(EventsOf(r)) = 0)
  /\ [][\A r \in Requests : C21_Step(r)]_vars

\* the model invocation that follows a failed tool call was rejected: the
\* observation turn of that call is still in the history
C21_Witness ==
  /\ req[1].modelFailed
  /\ req[1].outcome.kind \in {"throw", "timeout"}
  /\ CountTypes(EventsOf(1), {"tool-error", "tool-result"}) = 1
  /\ Contains(Last(HistoryOf(1)).content, "Observation: Error")
  /\ Last(EventsOf(1)).type = "error"

(***************************************************************************)
(* C25: once the cleared event of a connection has been sent, the history  *)
(* stored for its session holds no turn added before the clear: it holds   *)
(* at most as many human turns as chat messages received after the clear,  *)
(* also when a request received before the clear completes after it.       *)
(***************************************************************************)
\* the position of the first event of type t in es, 0 when there is none
FirstOf(es, t) ==
  IF \A k \in DOMAIN es : es[k].type # t THEN 0
  ELSE Min({k \in DOMAIN es : es[k].type = t})

\* the chat messages of session s received after its clear message
ChatsAfterClear(s) ==
  {r \in RequestsOf(s) :
     \E k \in DOMAIN sent[s] : /\ sent[s][k].req = r
                               /\ sent[s][k].step = "classification"
                               /\ k > FirstOf(sent[s], "cleared")}

HumanTurns(h) == SelectSeq(h, LAMBDA m : m.role = "human")

C25_ClearForgets ==
  \A s \in Sessions :
    (FirstOf(sent[s], "cleared") # 0 /\ sessions[s] # 0) =>
      Len(HumanTurns(arrays[sessions[s]])) <= Cardinality(ChatsAfterClear(s))

(***************************************************************************)
(* C26: the sessions map holds no entry for a connection that has closed,  *)
(* in every later state, also when a request of that connection completes  *)
(* after the close.                                                        *)
(***************************************************************************)
C26_ClosedHasNoEntry ==
  \A s \in Sessions : ~open[s] => sessions[s] = 0

(***************************************************************************)
(* C22: final answer has priority.  When the first reply of the model      *)
(* holds a 'Final Answer:' marker in any letter case, its parse is a final *)
(* answer whose text is everything after the first marker, trimmed, also   *)
(* when the reply holds an 'Action:' marker, and the loop starts no tool   *)
(* for that reply.                                                         *)
(***************************************************************************)
HasMarker(s, marker) == Contains(ToLower(s), marker)

AfterMarker(s, marker) ==
  From(s, Min(Occurrences(ToLower(s), marker)) + Len(marker))

\* request r has parsed its first reply and not yet received a second one
FirstReplyParsed(r) ==
  /\ req[r].iteration = 1
  /\ req[r].pc \in {"race", "chunk", "done"}
  /\ req[r].responseText = rawResponse

C22_FinalAnswerPriority ==
  (FirstReplyParsed(1) /\ HasMarker(rawResponse, "final answer:")) =>
    /\ req[1].parsed.isDone
    /\ req[1].parsed.hasFinal
    /\ req[1].parsed.finalAnswer = Trim(AfterMarker(rawResponse, "final answer:"))
    /\ req[1].toolExecs = 0
    /\ CountTypes(EventsOf(1), {"tool-call"}) = 0

(***************************************************************************)
(* C23: when the first reply of the model holds no 'Final Answer:' marker  *)
(* and an 'Action:' marker followed by a tool name, its parse is a tool    *)
(* action whose arguments are: the strict JSON parse of the text from the  *)
(* first '{' after 'Action Input:' to the first '}' after it when that     *)
(* parse succeeds; else {query: v} when that text holds a complete         *)
(* "query": "v" pair; else the empty object, also without Action Input.    *)
(***************************************************************************)
\* the text from the first '{' after the marker to the first '}' after it
BraceText(s) ==
  IF ~HasMarker(s, "action input:") THEN ""
  ELSE LET t == AfterMarker(s, "action input:")
           b == SkipUntil(t, 1, {"{"})
           e == SkipUntil(t, b + 1, {"}"})
       IN  IF b > Len(t) \/ e > Len(t) THEN "" ELSE SubSeq(t, b, e)

LenientArgs(s) ==
  LET g == BraceText(s)
  IN  IF g = "" THEN {}
      ELSE IF JSONParse(g).ok THEN JSONParse(g).obj
      ELSE IF SimpleMatch(g).found THEN {<<"query", JStr(SimpleMatch(g).g1)>>}
      ELSE {}

C23_LenientActionInput ==
  (/\ FirstReplyParsed(1)
   /\ ~HasMarker(rawResponse, "final answer:")
   /\ ActionMatch(rawResponse).found) =>
    /\ ~req[1].parsed.isDone
    /\ req[1].parsed.hasAction
    /\ req[1].parsed.action.actionInput = LenientArgs(rawResponse)

(***************************************************************************)
(* C24: in a run of the advanced agent graph the reflect step is taken at  *)
(* most maxIterations (3) times, whatever scores the quality model gives.  *)
(***************************************************************************)
C24_ReflectBounded == graph.reflections <= graph.maxIterations

(***************************************************************************)
(* C27: the browser is a singleton.  At any time at most one browser is    *)
(* launched and not closed, it is the one browserInstance refers to, and   *)
(* every tool call working on a page of an open browser works on that one. *)
(***************************************************************************)
OpenBrowsers == {b \in BrowserIds : browsers[b] \in {"open", "closing"}}

C27_Singleton ==
  /\ Cardinality(OpenBrowsers) <= 1
  /\ \A b \in OpenBrowsers : browserInstance = b
  /\ \A c \in Calls :
       (browserCalls[c].pc = "page" /\ browserCalls[c].browser \in OpenBrowsers)
         => browserCalls[c].browser = browserInstance

(***************************************************************************)
(* C28: the search cache evicts in LRU order.  When storing a result       *)
(* removes an entry, no other entry of the cache was used (stored or hit)  *)
(* longer ago than the removed one.                                        *)
(***************************************************************************)
Keys(cache) == {cache[i].key : i \in DOMAIN cache}

\* search k stores its result in this step
Stores(k) == searches[k].pc = "tavily" /\ searchCache' # searchCache

\* the places of the entries that are gone after the step
Removed == {i \in DOMAIN searchCache : searchCache[i].key \notin Keys(searchCache')}

C28_Step ==
  \A k \in Searches :
    Stores(k) =>
      \A i \in Removed, j \in DOMAIN searchCache :
        searchCache[i].used <= searchCache[j].used

C28_EvictsLeastRecentlyUsed == [][C28_Step]_vars

(***************************************************************************)
(* C29: searchCache never holds more than MAX_CACHE_SIZE entries, also     *)
(* with searches running concurrently, and a step that stores a result     *)
(* removes at most one entry.                                              *)
(***************************************************************************)
C29_Step == \A k \in Searches : Stores(k) => Cardinality(Removed) <= 1

C29_CacheBounded ==
  /\ [](/\ Len(searchCache) <= MAX_CACHE_SIZE
        /\ Cardinality(Keys(searchCache)) = Len(searchCache))
  /\ [][C29_Step]_vars

\* two results were stored in a full cache, each in place of one older
\* entry, while a third search is still running
C29_Witness ==
  /\ Len(searchCache) = MAX_CACHE_SIZE
  /\ {"cats", "dogs"} \subseteq Keys(searchCache)
  /\ {"query 1", "query 2"} \cap Keys(searchCache) = {}
  /\ "query 3" \in Keys(searchCache)
  /\ \E k \in Searches : searches[k].pc = "tavily"

(***************************************************************************)
(* C30: a lookup never returns a result stored more than CACHE_TTL         *)
(* earlier.  A lookup that finds an entry older than CACHE_TTL under the   *)
(* lower-cased, trimmed query removes it and the search goes to Tavily; a  *)
(* lookup that finds an entry not older than CACHE_TTL returns its result  *)
(* and leaves the entry as stored.                                         *)
(***************************************************************************)
\* search k makes its lookup in this step
LooksUp(k) == searches[k].pc = "idle" /\ searches'[k].pc # "idle"

C30_Step(k) ==
  LooksUp(k) =>
    LET key == Normalize(searches'[k].query)
        i == MapIndex(searchCache, key)
        j == MapIndex(searchCache', key)
    IN  /\ searches'[k].hit =>
              /\ i # 0
              /\ now - searchCache[i].timestamp <= CACHE_TTL
        /\ (i # 0 /\ now - searchCache[i].timestamp > CACHE_TTL) =>
              /\ searches'[k].pc = "tavily"
              /\ j = 0
              /\ Len(searchCache') = Len(searchCache) - 1
        /\ (i # 0 /\ now - searchCache[i].timestamp <= CACHE_TTL) =>
              /\ searches'[k].pc = "done"
              /\ searches'[k].hit
              /\ searches'[k].result = searchCache[i].result
              /\ j = i
              /\ searchCache'[j].result = searchCache[i].result
              /\ searchCache'[j].timestamp = searchCache[i].timestamp
              /\ Len(searchCache') = Len(searchCache)

C30_Expiry == [][\A k \in Searches : C30_Step(k)]_vars

\* 'query 1', stored at time 1, was returned for ' Query 1 ' when it was
\* exactly CACHE_TTL old, and found expired one millisecond later
C30_Witness ==
  /\ now = CACHE_TTL + 2
  /\ \E k \in Searches : /\ searches[k].hit
                          /\ searches[k].query = " Query 1 "
                          /\ searches[k].result = SearchOutput("query 1")
  /\ \E k \in Searches : /\ searches[k].pc = "tavily"
                          /\ searches[k].query = " Query 1 "
  /\ "query 1" \notin Keys(searchCache)
  /\ Len(searchCache) = MAX_CACHE_SIZE - 1

(***************************************************************************)
(* C32: a toolId names one tool call of a connection.  No two tool-call    *)
(* events sent on one connection carry the same toolId, so a tool-result   *)
(* or tool-error event matches exactly one earlier tool-call.              *)
(***************************************************************************)
ToolCallsAt(es) == {k \in DOMAIN es : es[k].type = "tool-call"}

C32_ToolIdUnique ==
  \A s \in Sessions :
    \A j, k \in ToolCallsAt(sent[s]) :
      sent[s][j].toolId = sent[s][k].toolId => j = k

(***************************************************************************)
(* C33: a final answer of n words separated by single spaces is delivered  *)
(* as one stream-start, exactly ceil(n / 10) stream-chunk events and one   *)
(* stream-end, in that order; every chunk carries at most 10 words, and    *)
(* the chunk contents put together are the final answer followed by one    *)
(* space.                                                                  *)
(***************************************************************************)
WordCount(text) == Cardinality(Occurrences(text, " ")) + 1

Chunks(es) == SelectSeq(es, LAMBDA e : e.type = "stream-chunk")

C33_Chunking ==
  (req[1].pc = "done" /\ req[1].parsed.isDone /\ req[1].parsed.finalAnswer # "") =>
    LET answer == req[1].parsed.finalAnswer
        n == WordCount(answer)
        es == EventsOf(1)
    IN  /\ CountTypes(es, {"stream-start"}) = 1
        /\ CountTypes(es, {"stream-end"}) = 1
        /\ StreamedLast(es)
        /\ Len(Chunks(es)) = (n + ChunkWords - 1) \div ChunkWords
        /\ \A k \in DOMAIN Chunks(es) :
             /\ EndsWith(Chunks(es)[k].content, " ")
             /\ Cardinality(Occurrences(Chunks(es)[k].content, " ")) <= ChunkWords
        /\ StreamedText(es) = answer \o " "

\* an answer of 21 words, two of them empty, was delivered in three chunks
C33_Witness ==
  /\ req[1].pc = "done"
  /\ WordCount(req[1].parsed.finalAnswer) = 21
  /\ Contains(req[1].parsed.finalAnswer, "  ")
  /\ Len(Chunks(EventsOf(1))) = 3
  /\ Last(EventsOf(1)).type = "stream-end"

(***************************************************************************)
(* C31: all model invocations of one request's ReACT loop go to the same   *)
(* chat model, whatever is posted to /api/models while the loop is         *)
(* suspended.                                                              *)
(***************************************************************************)
C31_OneModelPerLoop ==
  \A r \in Requests :
    \A i, j \in DOMAIN req[r].models : req[r].models[i] = req[r].models[j]

(***************************************************************************)
(* C38: in the JSON export of a session no entry of messages has the role  *)
(* system, messageCount is the number of entries of messages, and the      *)
(* index values of the entries are 0, 1, 2, ... in this order.             *)
(***************************************************************************)
C38_ExportCountsItsMessages ==
  \A s \in Sessions :
    LET export == ExportJson(s)
    IN  export.status = 200 =>
          /\ \A k \in DOMAIN export.messages : export.messages[k].role # "system"
          /\ export.messageCount = Len(export.messages)
          /\ \A k \in DOMAIN export.messages : export.messages[k].index = k - 1

(***************************************************************************)
(* C34: MemoryCheckpointSaver isolates threads.  A put or a clearThread on *)
(* one thread_id leaves what getTuple returns for every other thread_id as *)
(* it was, and getTuple for a thread_id returns the checkpoint put last    *)
(* for it, undefined when none was put since the last clearThread of it or *)
(* the last clearAll.                                                      *)
(***************************************************************************)
C34_OnThread(t) ==
  \/ \E c \in CheckpointIds : Put(Thread(t), c)
  \/ ClearThread(Thread(t))

C34_Step ==
  \A t \in ThreadIds :
    C34_OnThread(t) =>
      \A u \in ThreadIds \ {t} :
        checkpoints'[ThreadOf(Thread(u))] = checkpoints[ThreadOf(Thread(u))]

C34_OthersUntouched == [][C34_Step]_vars

C34_LatestPut ==
  \A t \in ThreadIds : getTuple(Thread(t)).checkpoint = lastPut[t]

C34_ThreadsIsolated == C34_OthersUntouched /\ []C34_LatestPut

(***************************************************************************)
(* C35: the client's reconnection is bounded.  A close schedules the       *)
(* reconnection after 2000 * 2^k ms, k being the number of reconnections   *)
(* that failed in a row so far; at most 5 reconnections are made without   *)
(* an open in between, after which none is scheduled; and every open sets  *)
(* the attempt counter to 0.                                               *)
(***************************************************************************)
C35_Closes == socket.state # "closed" /\ socket'.state = "closed"

C35_Opens == socket.state # "open" /\ socket'.state = "open"

C35_Step ==
  /\ (C35_Closes /\ reconnects'.failed < 5) =>
        reconnectTimer' = 2000 * 2 ^ reconnects'.failed
  /\ (C35_Closes /\ reconnects'.failed >= 5) => reconnectTimer' = 0
  /\ reconnectTimer' > reconnectTimer => C35_Closes
  /\ C35_Opens => reconnectAttempts' = 0

C35_ReconnectBounded == [][C35_Step]_vars /\ [](reconnects.made <= 5)

C35_Witness ==
  /\ socket = [state |-> "closed", reconnect |-> TRUE]
  /\ reconnects = [made |-> 5, failed |-> 5, delay |-> 0]
  /\ reconnectTimer = 0

(***************************************************************************)
(* C36: notes are private to a session.  What get_note or list_notes       *)
(* returns in a session is what it returns when only the take_note calls   *)
(* of that session have been made.                                         *)
(***************************************************************************)
C36_NotesArePrivate ==
  /\ noteCall.tool = "get_note" =>
       noteCall.result = getNote(taken[noteCall.session], noteCall.key)
  /\ noteCall.tool = "list_notes" =>
       noteCall.result = listNotes(taken[noteCall.session])

(***************************************************************************)
(* C37: read_file and write_file are confined to the project directory.    *)
(* For a path that resolves neither to process.cwd() nor to a place below  *)
(* it, the tool returns its Access denied error and makes no call of fs.   *)
(***************************************************************************)
InProject(resolvedPath) ==
  resolvedPath = Cwd \/ StartsWith(resolvedPath, Cwd \o "/")

C37_Confined ==
  (fileCall.tool # "" /\ ~InProject(Resolve(fileCall.filePath))) =>
     /\ StartsWith(fileCall.result, "Error: Access denied.")
     /\ fileCall.fs = <<>>

=============================================================================
